---- MODULE Spec2Model ----
(***************************************************************************)
(* ClipBook (src-tauri): the Content Store (DatabaseManager over the       *)
(* clipboard_items table) and the command layer that serialises callers    *)
(* through a tokio RwLock.                                                 *)
(*                                                                         *)
(* Strings are sequences of one-character strings, so that the SQL LIKE    *)
(* operator and the JSON encoding of the tags column are computed, not     *)
(* assumed.  Timestamps are integers (days); text comparison of the        *)
(* RFC 3339 UTC encoding that sqlx binds is order-preserving, so the       *)
(* integer order stands for the column order.                              *)
(***************************************************************************)
EXTENDS Integers, Sequences, FiniteSets, TLC

VARIABLES
    clipboard_items,   \* the rows of table clipboard_items (set of records)
    last,              \* the last completed store call: arguments, outcome, store before it
    db_lock,           \* the tokio RwLock around the DatabaseManager: Free or the caller holding its write half
    pc,                \* per concurrent caller: position inside its command
    call,              \* per concurrent caller: the command it runs
    local_tags,        \* per concurrent caller: the tags vector read by its SELECT
    pool_closed,       \* the SqlitePool has been closed
    create_if_missing, \* the connections were opened with leave to create database files
    system_preferences,   \* the rows of an auxiliary table (the code treats the eight mutable tables alike)
    schema_migrations, \* the rows of table schema_migrations: [version, name]
    backup_restore_logs,  \* the rows of table backup_restore_logs, in insertion order
    files,             \* the file system: what each backup path holds
    bk,                \* the last completed backup or restore call: arguments, outcome, state before it
    migration_dir,     \* the names of the .sql files of the migrations directory
    committed,         \* the migration statements committed so far, in order: <<version, chunk>>
    mig,               \* the last completed run of the Migration Runner
    db_readers,        \* the callers holding the read half of the RwLock
    task,              \* per concurrent caller: the locals of its backup, restore or query
    conn,              \* the connection of the pool: whether a transaction is open on it, the aliases attached to it
    faults,            \* the statements of backup_database that the file system may fail in this run
    metrics,           \* DatabaseManager.metrics: the counters get_database_metrics returns
    is_running,        \* ClipboardMonitor.is_running
    monitor_handle,    \* ClipboardMonitor.monitor_handle: 0 (None) or the poll task whose handle is kept
    tasks,             \* the poll tasks spawned by start_monitoring: position, abort flag, locals
    last_content,      \* ClipboardMonitor.last_content: the item of the last accepted change, if any
    callbacks,         \* ClipboardMonitor.callbacks: the subscribers, in the order of add_callback
    statistics,        \* ClipboardMonitor.statistics
    clock,             \* Utc::now(), in milliseconds
    clipboard,         \* the platform clipboard and the frontmost application
    mon,               \* the last completed call of the monitor: its outcome, the state before and after it
    effects,           \* what the poll task has done for the change it accepted last, in order
    menu_items,        \* SystemTrayManager.menu_items
    tray_call,         \* the last call of the System Tray Manager: its arguments, where it stands, the list before it
    shortcuts,         \* GlobalShortcutManager.shortcuts: action -> key combination, enabled
    registered_shortcuts, \* GlobalShortcutManager.registered_shortcuts: the actions that have a registration
    monitor_active,    \* GlobalShortcutManager.monitor_active
    shortcut_call      \* the last call of the Global Shortcut Manager: its arguments, where it stands, the state before it

\* the state of the System Tray Manager and of the Global Shortcut Manager
mac_vars == <<menu_items, tray_call, shortcuts, registered_shortcuts, monitor_active,
             shortcut_call>>

\* the state of the Change Monitor
monitor_vars == <<is_running, monitor_handle, tasks, last_content, callbacks, statistics,
                 clock, clipboard, mon, effects>>

\* the state beyond the item table and the callers
other_state == <<pool_closed, create_if_missing, system_preferences, schema_migrations, backup_restore_logs,
                 files, bk, migration_dir, committed, mig, db_readers, task, conn, faults, metrics,
                 monitor_vars, mac_vars>>

vars == <<clipboard_items, last, db_lock, pc, call, local_tags, other_state>>

\* the state outside the Change Monitor
store_vars == <<clipboard_items, last, db_lock, pc, call, local_tags, pool_closed,
               create_if_missing, system_preferences, schema_migrations, backup_restore_logs,
               files, bk, migration_dir, committed, mig, db_readers, task, conn, faults, metrics>>

----------------------------------------------------------------------------
(* Bounds of the model *)

MaxLimit == 3          \* list limits 0..MaxLimit are tried
MaxAge == 3            \* cleanup ages 0..MaxAge (days) are tried
MaxNow == 4            \* clock readings FirstNow..MaxNow (days)
FirstNow == 3
MaxFiles == 3          \* the migrations directory holds files named 1..MaxFiles at most
MaxTasks == 2          \* poll tasks that exist at a time
MaxClock == 300        \* the clock runs from 0 to MaxClock (milliseconds)
ClockStep == 50        \* the clock advances in steps of ClockStep
MaxJobs == 2           \* backup and restore calls are made while the job ledger holds fewer jobs

(* Program constants *)

DefaultLimit == 100    \* limit.unwrap_or(100)
DefaultHistoryLimit == 50    \* get_backup_restore_history: limit.unwrap_or(50)
SearchLimit == 100     \* LIMIT 100 in search_clipboard_items
MaxIdLen == 36
MaxContentLen == 1000000
MaxAppSourceLen == 255
MaxTags == 50
MaxTagLen == 50
MaxFutureDays == 365
MaxPastDays == 3650

Null == <<"NULL">>      \* SQL NULL / Option::None for a string (no string of characters equals it)
NoLimit == -1          \* Option::None for the limit of a listing

----------------------------------------------------------------------------
(* Strings *)

RECURSIVE Concat(_)
Concat(ss) == IF ss = <<>> THEN <<>> ELSE Head(ss) \o Concat(Tail(ss))

Min(a, b) == IF a <= b THEN a ELSE b

Upper == [c \in {"a", "b", "h", "i"} |->
            CASE c = "a" -> "A" [] c = "b" -> "B" [] c = "h" -> "H" [] c = "i" -> "I"]

\* ASCII case folding of one character (SQLite LIKE folds ASCII only; so does
\* the model's alphabet)
AsciiLower(c) ==
    IF \E l \in DOMAIN Upper : Upper[l] = c
    THEN CHOOSE l \in DOMAIN Upper : Upper[l] = c
    ELSE c

ToLower(s) == [i \in 1..Len(s) |-> AsciiLower(s[i])]

IsAlphanumeric(c) ==
    c \in {"a", "b", "h", "i", "A", "B", "H", "I", "0", "1"}

\* q occurs in s as a contiguous subsequence
Contains(s, q) ==
    \E i \in 0..(Len(s) - Len(q)) : SubSeq(s, i + 1, i + Len(q)) = q

\* number of occurrences of x in sequence s
Count(s, x) == Cardinality({i \in 1..Len(s) : s[i] = x})

----------------------------------------------------------------------------
(* serde_json for Vec<String>: the tags column holds this text *)

EscapeChar(c) ==
    IF c = "\"" THEN <<"\\", "\"">>
    ELSE IF c = "\\" THEN <<"\\", "\\">>
    ELSE <<c>>

JsonString(s) == <<"\"">> \o Concat([i \in 1..Len(s) |-> EscapeChar(s[i])]) \o <<"\"">>

RECURSIVE JoinComma(_)
JoinComma(ss) ==
    IF ss = <<>> THEN <<>>
    ELSE IF Len(ss) = 1 THEN Head(ss)
    ELSE Head(ss) \o <<",">> \o JoinComma(Tail(ss))

\* serde_json::to_string(&tags)
ToJson(tags) == <<"[">> \o JoinComma([i \in 1..Len(tags) |-> JsonString(tags[i])]) \o <<"]">>

ParseFail == [ok |-> FALSE, val |-> <<>>, next |-> 0]

\* the characters of a JSON string whose opening quote precedes position i
RECURSIVE ParseJsonString(_, _, _)
ParseJsonString(t, i, acc) ==
    IF i > Len(t) THEN ParseFail
    ELSE IF t[i] = "\"" THEN [ok |-> TRUE, val |-> acc, next |-> i + 1]
    ELSE IF t[i] = "\\"
         THEN IF i + 1 <= Len(t) /\ t[i + 1] \in {"\"", "\\"}
              THEN ParseJsonString(t, i + 2, Append(acc, t[i + 1]))
              ELSE ParseFail
    ELSE ParseJsonString(t, i + 1, Append(acc, t[i]))

\* the elements of a JSON array, an element starting at position i
RECURSIVE ParseJsonElems(_, _, _)
ParseJsonElems(t, i, acc) ==
    IF i > Len(t) \/ t[i] # "\"" THEN ParseFail
    ELSE LET e == ParseJsonString(t, i + 1, <<>>) IN
         IF ~e.ok \/ e.next > Len(t) THEN ParseFail
         ELSE IF t[e.next] = "," THEN ParseJsonElems(t, e.next + 1, Append(acc, e.val))
         ELSE IF t[e.next] = "]" /\ e.next = Len(t)
              THEN [ok |-> TRUE, val |-> Append(acc, e.val), next |-> e.next + 1]
         ELSE ParseFail

\* serde_json::from_str::<Vec<String>>(text).unwrap_or_default()
FromJson(t) ==
    IF Len(t) < 2 \/ t[1] # "[" THEN <<>>
    ELSE IF t = <<"[", "]">> THEN <<>>
    ELSE LET r == ParseJsonElems(t, 2, <<>>) IN IF r.ok THEN r.val ELSE <<>>

----------------------------------------------------------------------------
(* SQLite operators *)

\* text LIKE pattern: % is any run of characters, _ is any one character,
\* other characters match ASCII-case-insensitively; NULL LIKE p is not true
RECURSIVE LikeMatch(_, _)
LikeMatch(p, t) ==
    IF p = <<>> THEN t = <<>>
    ELSE IF Head(p) = "%"
         THEN LikeMatch(Tail(p), t) \/ (t # <<>> /\ LikeMatch(p, Tail(t)))
    ELSE /\ t # <<>>
         /\ (Head(p) = "_" \/ AsciiLower(Head(p)) = AsciiLower(Head(t)))
         /\ LikeMatch(Tail(p), Tail(t))

Like(t, p) == t # Null /\ LikeMatch(p, t)

\* all orders in which ORDER BY timestamp DESC may deliver the rows of S
\* (rows with equal timestamps come in an order SQLite does not promise)
OrderByTimestampDesc(S) ==
    {s \in [1..Cardinality(S) -> S] :
        /\ \A i, j \in 1..Cardinality(S) : i # j => s[i] # s[j]
        /\ \A i, j \in 1..Cardinality(S) : i < j => s[i].timestamp >= s[j].timestamp}

\* LIMIT that lets one row too many through
Limit_OffByOne(s, n) == IF n < 0 THEN s ELSE SubSeq(s, 1, IF n + 1 <= Len(s) THEN n + 1 ELSE Len(s))

\* LIMIT n; a negative n means no limit
Limit(s, n) == IF n < 0 THEN s ELSE SubSeq(s, 1, Min(n, Len(s)))

----------------------------------------------------------------------------
(* Data: clipboard::ClipboardItem and the rows of clipboard_items *)

ContentTypes == {"Text", "Image", "File", "Html", "Unknown"}

\* sqlx Encode / Decode of ClipboardContentType
EncodeContentType(ct) ==
    CASE ct = "Text" -> "text" [] ct = "Image" -> "image" [] ct = "File" -> "file"
      [] ct = "Html" -> "html" [] ct = "Unknown" -> "unknown"

DecodeContentType(s) ==
    CASE s = "text" -> "Text" [] s = "image" -> "Image" [] s = "file" -> "File"
      [] s = "html" -> "Html" [] s = "unknown" -> "Unknown"

\* the variants of ClipBookError
ClipBookError == {"ClipboardError", "SystemError", "DatabaseError", "Database",
                  "IoError", "PerformanceError", "ConfigError", "SerializationError"}

U1 == <<"u", "1">>
U2 == <<"u", "2">>
EmptyId == <<>>
\* Uuid::parse_str succeeds on these ids
WellFormedUuids == {U1, U2}

TagA == <<"a">>
TagB == <<"b", "\"">>          \* a tag holding a quote character
TagPct == <<"%">>
AppAb == <<"A", "b">>

\* the items callers pass to save
SaveItems == {
    [id |-> U1, content |-> <<"H", "i">>, content_type |-> "Text", timestamp |-> 1,
     app_source |-> Null, is_favorite |-> FALSE, tags |-> <<>>],
    [id |-> U2, content |-> <<"H", "i">>, content_type |-> "Text", timestamp |-> 2,
     app_source |-> AppAb, is_favorite |-> FALSE, tags |-> <<TagA>>],
    [id |-> U1, content |-> <<"a", "_">>, content_type |-> "Html", timestamp |-> 2,
     app_source |-> Null, is_favorite |-> TRUE, tags |-> <<TagA, TagA>>],
    [id |-> U2, content |-> <<"b">>, content_type |-> "Text", timestamp |-> 0,
     app_source |-> AppAb, is_favorite |-> FALSE, tags |-> <<TagB>>],
    [id |-> EmptyId, content |-> <<"H", "i">>, content_type |-> "Unknown", timestamp |-> 3,
     app_source |-> Null, is_favorite |-> FALSE, tags |-> <<TagPct>>] }

IdArgs == {U1, U2}
TagArgs == {TagA, TagB}
Queries == {<<"h">>, <<"_">>, <<"%">>, <<"a">>, <<"\"">>, <<"i", "x">>}
Limits == (0..MaxLimit) \cup {NoLimit}
Ages == 0..MaxAge
Clock == FirstNow..MaxNow

\* the row bound by save_clipboard_item's INSERT
ItemToRow(item) ==
    [id |-> item.id, content |-> item.content,
     content_type |-> EncodeContentType(item.content_type),
     timestamp |-> item.timestamp, app_source |-> item.app_source,
     is_favorite |-> item.is_favorite, tags |-> ToJson(item.tags)]

\* the ClipboardItem the read paths build from a row
RowToItem(row) ==
    [id |-> row.id, content |-> row.content,
     content_type |-> DecodeContentType(row.content_type),
     timestamp |-> row.timestamp, app_source |-> row.app_source,
     is_favorite |-> row.is_favorite, tags |-> FromJson(row.tags)]

\* the rows a new row displaces under INSERT OR REPLACE: those with its key.
\* The table's key is its id column (the store upserts by id).
Conflicts(rows, row) == {r \in rows : r.id = row.id}

RowsWithId(rows, id) == {r \in rows : r.id = id}
RowOf(rows, id) == CHOOSE r \in rows : r.id = id
Stored(rows, id) == \E r \in rows : r.id = id
TagsOf(rows, id) == FromJson(RowOf(rows, id).tags)

----------------------------------------------------------------------------
(* models.rs: validate *)

ValidateError(item, now) ==
    IF Len(item.id) > MaxIdLen \/ item.id = <<>> THEN "Invalid ID length"
    ELSE IF item.id \notin WellFormedUuids THEN "Invalid UUID format"
    ELSE IF Len(item.content) > MaxContentLen THEN "Content too large"
    ELSE IF now - item.timestamp > MaxFutureDays THEN "Timestamp out of range"
    ELSE IF now - item.timestamp < -MaxPastDays THEN "Timestamp out of range"
    ELSE IF item.app_source # Null /\ Len(item.app_source) > MaxAppSourceLen
         THEN "App source too long"
    ELSE IF Len(item.tags) > MaxTags THEN "Too many tags"
    ELSE IF \E i \in 1..Len(item.tags) : Len(item.tags[i]) > MaxTagLen THEN "Tag too long"
    ELSE IF \E i \in 1..Len(item.tags) : \E k \in 1..Len(item.tags[i]) :
                ~(IsAlphanumeric(item.tags[i][k]) \/ item.tags[i][k] \in {"-", "_"})
         THEN "Invalid tag format"
    ELSE "ok"

validate(item, now) == ValidateError(item, now) = "ok"

----------------------------------------------------------------------------
(* DatabaseManager: what each method does to the table and what it returns *)

Outcome(rows, ok, err, flag, count, list) ==
    [rows |-> rows, ok |-> ok, err |-> err, flag |-> flag, count |-> count, list |-> list]

Ok(rows) == Outcome(rows, TRUE, "none", FALSE, 0, <<>>)
Err(rows, e) == Outcome(rows, FALSE, e, FALSE, 0, <<>>)

save_clipboard_item(rows, item) ==
    LET row == ItemToRow(item) IN
    Ok((rows \ Conflicts(rows, row)) \cup {row})

\* the answers get_clipboard_history(limit) may give
get_clipboard_history(rows, limit) ==
    LET n == IF limit = NoLimit THEN DefaultLimit ELSE limit IN
    {[i \in 1..Len(Limit(s, n)) |-> RowToItem(s[i])] : s \in OrderByTimestampDesc(rows)}

SearchPattern(query) == <<"%">> \o query \o <<"%">>

SearchMatches(rows, query) ==
    {r \in rows : \/ Like(r.content, SearchPattern(query))
                  \/ Like(r.app_source, SearchPattern(query))
                  \/ Like(r.tags, SearchPattern(query))}

\* the answers search_clipboard_items(query) may give
search_clipboard_items(rows, query) ==
    {[i \in 1..Len(Limit(s, SearchLimit)) |-> RowToItem(s[i])] :
        s \in OrderByTimestampDesc(SearchMatches(rows, query))}

\* a toggle that sets the flag instead of negating it
toggle_favorite_SetsTrue(rows, id) ==
    IF {r \in rows : r.id = id} = {} THEN Err(rows, "DatabaseError")
    ELSE LET old == CHOOSE r \in rows : r.id = id
             new == [old EXCEPT !.is_favorite = TRUE]
         IN  [Ok((rows \ {old}) \cup {new}) EXCEPT !.flag = TRUE]

toggle_favorite(rows, id) ==
    IF RowsWithId(rows, id) = {} THEN Err(rows, "DatabaseError")
    ELSE LET old == CHOOSE r \in rows : r.id = id
             new == [old EXCEPT !.is_favorite = ~old.is_favorite]
         IN  [Ok((rows \ {old}) \cup {new}) EXCEPT !.flag = new.is_favorite]

delete_clipboard_item(rows, id) == Ok(rows \ RowsWithId(rows, id))

clear_clipboard_history(rows) == Ok({})

add_tag_to_item(rows, id, tag) ==
    IF RowsWithId(rows, id) = {} THEN Err(rows, "DatabaseError")
    ELSE LET old == CHOOSE r \in rows : r.id = id
             tags == FromJson(old.tags)
         IN  IF \E i \in 1..Len(tags) : tags[i] = tag
             THEN Ok(rows)
             ELSE Ok((rows \ {old}) \cup {[old EXCEPT !.tags = ToJson(Append(tags, tag))]})

remove_tag_from_item(rows, id, tag) ==
    IF RowsWithId(rows, id) = {} THEN Err(rows, "DatabaseError")
    ELSE LET old == CHOOSE r \in rows : r.id = id
             tags == FromJson(old.tags)
             kept == SelectSeq(tags, LAMBDA t : t # tag)
         IN  Ok((rows \ {old}) \cup {[old EXCEPT !.tags = ToJson(kept)]})

\* a cleanup that also deletes the items exactly at the cutoff
cleanup_old_items_Inclusive(rows, max_age_days, now) ==
    LET cutoff_date == now - max_age_days
        old == {r \in rows : r.timestamp <= cutoff_date}
    IN  [Ok(rows \ old) EXCEPT !.count = Cardinality(old)]

cleanup_old_items(rows, max_age_days, now) ==
    LET cutoff_date == now - max_age_days
        old == {r \in rows : r.timestamp < cutoff_date}
    IN  [Ok(rows \ old) EXCEPT !.count = Cardinality(old)]

----------------------------------------------------------------------------
(* The Migration Runner (DatabaseManager::run_migrations).  A migration    *)
(* file is a sequence of tokens: a statement ("s1", "s2"), a comment line  *)
(* ("--", which ends with its line), white space (" ") and the separator   *)
(* (";").  Files are named by their zero-padded sequence number.           *)

MigrationNames == 1..MaxFiles

MigrationSql(name) ==
    CASE name % 3 = 1 -> <<"s1", ";", " ", "s2", ";", " ">>
      [] name % 3 = 2 -> <<"--", "s1", ";", " ", "s2", ";">>
      [] OTHER        -> <<"s1", " ", "--", ";", " ", "s2", ";", "--", " ">>

IsStatement(token) == token \notin {"--", " ", ";"}

\* migration_files.sort_by_key(file_name)
RECURSIVE SortByName(_)
SortByName(S) ==
    IF S = {} THEN <<>>
    ELSE LET first == CHOOSE x \in S : \A y \in S : x <= y
         IN  <<first>> \o SortByName(S \ {first})

\* migration_sql.split(';')
RECURSIVE Split(_, _)
Split(text, chunk) ==
    IF text = <<>> THEN <<chunk>>
    ELSE IF Head(text) = ";" THEN <<chunk>> \o Split(Tail(text), <<>>)
    ELSE Split(Tail(text), Append(chunk, Head(text)))

\* statement.trim()
RECURSIVE TrimStart(_)
TrimStart(chunk) ==
    IF chunk # <<>> /\ Head(chunk) = " " THEN TrimStart(Tail(chunk)) ELSE chunk

RECURSIVE TrimEnd(_)
TrimEnd(chunk) ==
    IF chunk # <<>> /\ chunk[Len(chunk)] = " "
    THEN TrimEnd(SubSeq(chunk, 1, Len(chunk) - 1)) ELSE chunk

Trim(chunk) == TrimEnd(TrimStart(chunk))

\* !statement.is_empty() && !statement.starts_with("--")
IsExecuted(statement) == statement # <<>> /\ Head(statement) # "--"

\* the statements of file `name` that the runner sends to the transaction,
\* in order (SQLite ignores the comments inside a statement it is sent)
ExecutedStatements(name) ==
    LET chunks == Split(MigrationSql(name), <<>>)
        trimmed == [i \in 1..Len(chunks) |-> Trim(chunks[i])]
        sent == SelectSeq(trimmed, IsExecuted)
    IN  Concat([i \in 1..Len(sent) |-> SelectSeq(sent[i], IsStatement)])

\* the statement that fails in a run, if any: statement `stmt` of file `name`
NoBad == [name |-> 0, stmt |-> "none"]
BadChoices(dir) ==
    {NoBad} \cup {[name |-> n, stmt |-> s] : n \in dir, s \in {"s1", "s2"}}

MaxVersion(migs) ==
    IF migs = {} THEN 0
    ELSE CHOOSE v \in {m.version : m \in migs} : \A m \in migs : m.version <= v

\* a current version that forgets the ledger
get_current_migration_version_Zero(migs, closed) == [ok |-> TRUE, version |-> 0]

\* CREATE TABLE IF NOT EXISTS schema_migrations; SELECT COALESCE(MAX(version), 0)
get_current_migration_version(migs, closed) ==
    IF closed THEN [ok |-> FALSE, version |-> 0]
    ELSE [ok |-> TRUE, version |-> MaxVersion(migs)]

\* a failed file that keeps what its transaction did before the failure
Rollback_KeepsPartial(before, partial) == partial

\* the transaction of a file is dropped without commit: nothing of it stays
Rollback(before, partial) == before

\* one file in its transaction: pool.begin, the statements, the record, commit
ApplyFile(st, version, name, closed, bad) ==
    LET stmts == ExecutedStatements(name)
        begun == [st EXCEPT !.attempted = Append(@, version)]
        failing == {i \in 1..Len(stmts) : bad.name = name /\ bad.stmt = stmts[i]}
        stop == IF failing = {} THEN Len(stmts) + 1
                ELSE CHOOSE i \in failing : \A j \in failing : i <= j
        done(n) == [begun EXCEPT
                      !.committed = @ \o [i \in 1..n |-> <<version, stmts[i]>>]]
        error(s) == [s EXCEPT !.ok = FALSE, !.err = "DatabaseError", !.failed = version]
    IN  IF closed THEN error(st)
        ELSE IF failing # {} THEN error(Rollback(begun, done(stop - 1)))
        ELSE IF \E m \in st.migs : m.version = version
        THEN error(Rollback(begun, done(Len(stmts))))
        ELSE [done(Len(stmts)) EXCEPT
                !.migs = @ \cup {[version |-> version, name |-> name]},
                !.applied = Append(@, version)]

\* for (index, entry) in migration_files.iter().enumerate()
RECURSIVE ApplyPending(_, _, _, _, _, _)
ApplyPending(st, migration_files, index, current_version, closed, bad) ==
    IF index > Len(migration_files) \/ ~st.ok THEN st
    ELSE LET migration_version == index
             next == IF migration_version > current_version
                     THEN ApplyFile(st, migration_version, migration_files[index],
                                    closed, bad)
                     ELSE st
         IN  ApplyPending(next, migration_files, index + 1, current_version, closed, bad)

run_migrations(migs, comm, dir, closed, bad) ==
    LET migration_files == SortByName(dir)
        version == get_current_migration_version(migs, closed)
        current_version == IF version.ok THEN version.version ELSE 0
        start == [migs |-> migs, committed |-> comm, ok |-> TRUE, err |-> "none",
                  attempted |-> <<>>, applied |-> <<>>, failed |-> 0]
    IN  ApplyPending(start, migration_files, 1, current_version, closed, bad)

\* the record of a finished run
NoRun == [ran |-> FALSE, ok |-> TRUE, err |-> "none", bad |-> NoBad,
          pre_version |-> 0, post_version |-> 0, pre_committed |-> <<>>,
          attempted |-> <<>>, applied |-> <<>>, failed |-> 0,
          prev_ran |-> FALSE, prev_ok |-> TRUE, prev_failed |-> 0]

\* the store right after a construction that met no failure
Migrated(dir) == run_migrations({}, <<>>, dir, FALSE, NoBad)

----------------------------------------------------------------------------
(* The Backup Coordinator (create_backup, restore_from_backup).  The store *)
(* as these methods see it is a record w: the tables of the live database  *)
(* (items, prefs, migs, logs), the pool (closed), the file system (files)  *)
(* and the migrations directory with its statements (dir, committed).      *)

Tables == {"clipboard_items", "schema_migrations", "system_preferences",
           "backup_restore_logs"}

\* let tables = vec![...] of backup_database; system_preferences stands for
\* the seven auxiliary tables, which the loop treats like it
BackupTables == <<"clipboard_items", "schema_migrations", "system_preferences",
                  "backup_restore_logs">>

\* tables_to_clear and tables of restore_database: neither schema_migrations
\* nor backup_restore_logs
RestoreTables == <<"clipboard_items", "system_preferences">>

EmptyTables == [t \in Tables |-> {}]


BackupPaths == {"backups/fresh.db", "backups/clipbook_copy.db", "notes.txt", "notes.txt/backup.db"}

\* backup_path.parent(), for the paths whose parent the model tracks
Parent(path) ==
    CASE path = "notes.txt/backup.db" -> "notes.txt"
      [] path \in {"backups/fresh.db", "backups/clipbook_copy.db"} -> "backups"
      [] OTHER -> ""

IsFile(fs, path) == path \in DOMAIN fs /\ fs[path].kind # "absent"

\* std::fs::create_dir_all(parent): fails when the parent is a regular file
create_dir_all(fs, dir) == ~IsFile(fs, dir)

\* std::fs::metadata(path).len(): the model measures a file by its rows
FileSize(f) ==
    Cardinality(f.tables["clipboard_items"]) + Cardinality(f.tables["schema_migrations"])
    + Cardinality(f.tables["system_preferences"])
    + Cardinality(f.tables["backup_restore_logs"])

\* the key of a row of table t (version is the key that
\* get_current_migration_version declares)
KeyOf(t, row) ==
    CASE t = "clipboard_items" -> row.id
      [] t = "schema_migrations" -> row.version
      [] t = "backup_restore_logs" -> row.job_id
      [] OTHER -> row

World(items, prefs, migs, logs, fs, closed, create, dir, comm) ==
    [items |-> items, prefs |-> prefs, migs |-> migs, logs |-> logs, files |-> fs,
     closed |-> closed, create |-> create, dir |-> dir, committed |-> comm,
     in_tx |-> FALSE, attached |-> {}, fault |-> "none"]

\* the tables of the live database, by name
MainTables(w) ==
    [t \in Tables |->
        CASE t = "clipboard_items" -> w.items
          [] t = "schema_migrations" -> w.migs
          [] t = "system_preferences" -> w.prefs
          [] OTHER -> {w.logs[i] : i \in DOMAIN w.logs}]

\* for table in tables { INSERT INTO dst.table SELECT * FROM src.table }: an
\* INSERT that meets a row with a key of dst fails as a whole, is logged,
\* and the loop goes on
\* a copy that gives up all the tables when one INSERT fails
CopyTables_AllOrNothing(dst, src, tables) ==
    IF \E i \in DOMAIN tables :
          \E a \in dst[tables[i]], b \in src[tables[i]] :
              KeyOf(tables[i], a) = KeyOf(tables[i], b)
    THEN dst
    ELSE [t \in DOMAIN dst |->
            IF \E i \in DOMAIN tables : tables[i] = t THEN dst[t] \cup src[t] ELSE dst[t]]

RECURSIVE CopyTables(_, _, _)
CopyTables(dst, src, tables) ==
    IF tables = <<>> THEN dst
    ELSE LET t == Head(tables)
             conflict == \E a \in dst[t], b \in src[t] : KeyOf(t, a) = KeyOf(t, b)
         IN  CopyTables(IF conflict THEN dst ELSE [dst EXCEPT ![t] = @ \cup src[t]],
                        src, Tail(tables))

\* a connection of the pool can be had
acquire_IgnoresClose(closed) == TRUE

acquire(closed) == ~closed

\* ATTACH DATABASE ? AS ...: fails on a closed pool, on a file that is not a
\* database, under a parent that is not a directory, and on a path that holds
\* nothing unless the connection may create files (SQLite opens the attached
\* file with the flags of the connection)
Attachable(w, path) ==
    /\ acquire(w.closed)
    /\ w.files[path].kind # "text"
    /\ w.files[path].kind = "absent" => w.create
    /\ ~IsFile(w.files, Parent(path))

Attached(w, path) ==
    IF w.files[path].kind = "absent"
    THEN [kind |-> "db", schema |-> FALSE, tables |-> EmptyTables]
    ELSE w.files[path]

NoJob == [job_id |-> 0, operation_type |-> "none", status |-> "none", file_path |-> "",
          file_size_bytes |-> 0, items_count |-> 0, error_message |-> "none",
          end_time |-> "None"]

\* what a method of the Backup Coordinator returns: the store after it and
\* Ok or Err (with the job, for create_backup and restore_from_backup)
JobResult(w, ok, err, job) == [w |-> w, ok |-> ok, err |-> err, job |-> job]

\* a backup that moves the rows: it empties the tables it has copied
backup_database_Moves(w, backup_path) ==
    IF ~Attachable(w, backup_path) THEN JobResult(w, FALSE, "DatabaseError", NoJob)
    ELSE JobResult([w EXCEPT !.items = {}, !.prefs = {}], TRUE, "none", NoJob)

\* the statements of backup_database after ATTACH, each followed by `?`; a
\* COMMIT that fails leaves the transaction open ("commit") or is rolled back
\* by SQLite ("commit_rolled_back")
BackupFaults == {"begin", "select", "commit", "commit_rolled_back", "detach"}

\* ATTACH, BEGIN IMMEDIATE, SELECT sql FROM sqlite_master, the copy of each
\* table (which needs the table to exist in the backup file), COMMIT, DETACH.
\* An Err returns at once: what was attached stays attached, a transaction
\* that was begun stays open, and the connection goes on seeing what it wrote
\* in it.
backup_database(w, backup_path) ==
    IF ~Attachable(w, backup_path) \/ "backup_db" \in w.attached
    THEN JobResult(w, FALSE, "DatabaseError", NoJob)
    ELSE LET backup_db == Attached(w, backup_path)
             attached == [w EXCEPT !.files[backup_path] = backup_db,
                                   !.attached = @ \cup {"backup_db"}]
             begun == [attached EXCEPT !.in_tx = TRUE]
             copied == IF backup_db.schema
                       THEN [begun EXCEPT !.files[backup_path].tables =
                                            CopyTables(@, MainTables(w), BackupTables)]
                       ELSE begun
             committed_tx == [copied EXCEPT !.in_tx = FALSE]
         IN  CASE w.in_tx \/ w.fault = "begin" ->
                    JobResult(attached, FALSE, "DatabaseError", NoJob)
               [] w.fault = "select" -> JobResult(begun, FALSE, "DatabaseError", NoJob)
               [] w.fault = "commit" -> JobResult(copied, FALSE, "DatabaseError", NoJob)
               [] w.fault = "commit_rolled_back" ->
                    JobResult(attached, FALSE, "DatabaseError", NoJob)
               [] w.fault = "detach" -> JobResult(committed_tx, FALSE, "DatabaseError", NoJob)
               [] OTHER -> JobResult([committed_tx EXCEPT !.attached = @ \ {"backup_db"}],
                                     TRUE, "none", NoJob)

\* SELECT COUNT(*) FROM clipboard_items, None on an error
CountItems(w) == IF acquire(w.closed) THEN Cardinality(w.items) ELSE 0

\* a recording that replaces the ledger by the new job
record_backup_restore_job_Overwrites(w, job) ==
    JobResult([w EXCEPT !.logs = <<job>>], TRUE, "none", job)

\* record_backup_restore_job(&job).await?; Ok(job)
record_backup_restore_job(w, job) ==
    IF ~acquire(w.closed) THEN JobResult(w, FALSE, "DatabaseError", NoJob)
    ELSE JobResult([w EXCEPT !.logs = Append(@, job)], TRUE, "none", job)

create_backup(w, backup_path) ==
    IF ~create_dir_all(w.files, Parent(backup_path))
    THEN JobResult(w, FALSE, "DatabaseError", NoJob)
    ELSE LET backup_result == backup_database(w, backup_path)
             after == backup_result.w
             job == [job_id |-> Len(w.logs) + 1,
                     operation_type |-> "backup",
                     status |-> IF backup_result.ok THEN "completed" ELSE "failed",
                     file_path |-> backup_path,
                     file_size_bytes |-> IF backup_result.ok
                                         THEN FileSize(after.files[backup_path]) ELSE 0,
                     items_count |-> IF backup_result.ok THEN CountItems(after) ELSE 0,
                     error_message |-> IF backup_result.ok THEN "none" ELSE "Backup failed",
                     end_time |-> "Some"]
         IN  record_backup_restore_job(after, job)

\* the two transactions of restore_database, the ATTACH between them, and
\* the Migration Runner at the end; BEGIN IMMEDIATE fails on a connection
\* that has a transaction open
restore_database(w, backup_path) ==
    IF ~acquire(w.closed) \/ w.in_tx THEN JobResult(w, FALSE, "DatabaseError", NoJob)
    ELSE LET cleared == [w EXCEPT !.items = {}, !.prefs = {}]
         IN  IF ~Attachable(cleared, backup_path) \/ "restore_db" \in w.attached
             THEN JobResult(cleared, FALSE, "DatabaseError", NoJob)
             ELSE LET restore_db == Attached(cleared, backup_path)
                      main == IF restore_db.schema
                              THEN CopyTables(MainTables(cleared), restore_db.tables,
                                              RestoreTables)
                              ELSE MainTables(cleared)
                      copied == [cleared EXCEPT !.items = main["clipboard_items"],
                                                !.prefs = main["system_preferences"],
                                                !.files[backup_path] = restore_db]
                      run == run_migrations(copied.migs, copied.committed, copied.dir,
                                            copied.closed, NoBad)
                      migrated == [copied EXCEPT !.migs = run.migs,
                                                 !.committed = run.committed]
                  IN  JobResult(migrated, run.ok, run.err, NoJob)

restore_from_backup(w, backup_path) ==
    IF ~IsFile(w.files, backup_path)
    THEN JobResult(w, FALSE, "DatabaseError", NoJob)
    ELSE LET pre_restore_backup == backup_database(w, "backup_before_restore.db")
             restore_result == restore_database(pre_restore_backup.w, backup_path)
             after == restore_result.w
             job == [job_id |-> Len(w.logs) + 1,
                     operation_type |-> "restore",
                     status |-> IF restore_result.ok THEN "completed" ELSE "failed",
                     file_path |-> backup_path,
                     file_size_bytes |-> FileSize(after.files[backup_path]),
                     items_count |-> IF restore_result.ok THEN CountItems(after) ELSE 0,
                     error_message |-> IF restore_result.ok THEN "none" ELSE "Restore failed",
                     end_time |-> "Some"]
         IN  record_backup_restore_job(after, job)

\* SELECT ... FROM backup_restore_logs ORDER BY start_time DESC LIMIT ?: the
\* callers are serialised and each job takes its start_time when its call
\* begins, so the newest job is the one inserted last
get_backup_restore_history(logs, limit) ==
    LET n == IF limit = NoLimit THEN DefaultHistoryLimit ELSE limit
        m == IF n < Len(logs) THEN n ELSE Len(logs)
    IN  [i \in 1..m |-> logs[Len(logs) + 1 - i]]

\* self.pool.close().await; Ok(())
close(closed) == TRUE

----------------------------------------------------------------------------
(* The Change Monitor (mac_os/clipboard_monitor.rs): start and stop, the   *)
(* subscribers, and the poll task that start spawns.  The task runs on a   *)
(* worker thread of its own next to the callers; each of its steps below   *)
(* is one stretch of code between two points where another thread can be   *)
(* seen to act.  Times are milliseconds.  An Option is a set with at most  *)
(* one element.                                                            *)

MonitoringInterval == 250    \* monitoring_interval: Duration::from_millis(250)
DebounceMs == 100            \* time_since_last_change > 100

\* a monitor that ignores no application
ignore_applications_None == {}

\* ignore_applications of new()
ignore_applications == {"ClipBook", "SystemUIServer", "WindowServer"}

\* the poll tasks that may exist
Tasks == 1..MaxTasks

\* a poll task that does not exist: its position, whether its handle was
\* aborted, its locals (last_change_time, the deadline of its interval, the
\* event it dispatches, the index of the callback loop) and, for the
\* properties, how its last tick ended and whether a read of it has failed
NoPoll == [pc |-> "none", aborted |-> FALSE, last_change_time |-> 0, next_tick |-> 0,
           event |-> {}, i |-> 0, verdict |-> "none", read_failed |-> FALSE,
           suppressed |-> {}]

\* no call of the monitor yet.  Of a call the model keeps: whether it
\* returned Ok, what is_monitoring returned, the last of start and stop that
\* was called, whether the monitor was Running before the call and after it,
\* and whether the call changed the handle or a task
NoMonitorCall ==
    [op |-> "none", ok |-> TRUE, result |-> FALSE, switch |-> "none",
     pre_running |-> FALSE, post_running |-> FALSE, task_changed |-> FALSE]

\* ClipboardMonitor::new(): Stopped, nothing seen, no subscriber, no task
new ==
    /\ is_running = FALSE
    /\ monitor_handle = 0
    /\ tasks = [t \in Tasks |-> NoPoll]
    /\ last_content = {}
    /\ callbacks = <<>>
    /\ statistics = [total_changes_detected |-> 0, text_changes |-> 0, last_change |-> {}]
    /\ clock = 0
    /\ clipboard = [has_text |-> FALSE, content |-> <<>>, app |-> {}]
    /\ mon = NoMonitorCall
    /\ effects = <<>>

----------------------------------------------------------------------------
(* The command layer, one caller at a time: every command of commands.rs   *)
(* takes the RwLock around the DatabaseManager, runs one method and        *)
(* returns its result.                                                     *)

Callers == {1, 2}
Free == 0               \* nobody holds the RwLock

NoCall == [op |-> "none", id |-> <<>>, tag |-> <<>>, item |-> Null, limit |-> NoLimit,
           query |-> <<>>, age |-> 0, now |-> 0,
           ok |-> TRUE, err |-> "none", flag |-> FALSE, count |-> 0, list |-> <<>>,
           pre |-> {}, rep |-> FALSE, pre2 |-> {}, closed |-> FALSE]

\* c repeats the call before it: the same mutator of one item, the same
\* arguments, both successful
Repeats(c, out) ==
    /\ c.op \in {"toggle", "add_tag", "remove_tag"}
    /\ last.op = c.op /\ last.id = c.id /\ last.tag = c.tag
    /\ last.ok /\ out.ok

\* the record of a finished call: its arguments (in c), its outcome, the table
\* before it and, when it repeats the previous call, the table before that one
Done(c, out) ==
    [c EXCEPT !.ok = out.ok, !.err = out.err, !.flag = out.flag, !.count = out.count,
              !.list = out.list, !.pre = clipboard_items,
              !.rep = Repeats(c, out),
              !.pre2 = IF Repeats(c, out) THEN last.pre ELSE {},
              !.closed = pool_closed]

\* every method reaches the database through the pool: on a closed pool its
\* first query fails and `?` returns the error, a DatabaseError
OnPool(out) ==
    IF acquire(pool_closed) THEN out ELSE Err(clipboard_items, "DatabaseError")

Idle == db_lock = Free /\ \A p \in Callers : pc[p] = "idle"

add_to_clipboard_history ==
    \E item \in SaveItems :
        LET out == OnPool(save_clipboard_item(clipboard_items, item)) IN
        /\ Idle
        /\ clipboard_items' = out.rows
        /\ last' = Done([NoCall EXCEPT !.op = "save", !.id = item.id, !.item = item], out)
        /\ UNCHANGED <<db_lock, pc, call, local_tags, other_state>>

get_clipboard_history_cmd ==
    \E limit \in Limits : \E r \in get_clipboard_history(clipboard_items, limit) :
        /\ Idle
        /\ last' = Done([NoCall EXCEPT !.op = "list", !.limit = limit],
                        OnPool([Ok(clipboard_items) EXCEPT !.list = r]))
        /\ UNCHANGED <<clipboard_items, db_lock, pc, call, local_tags, other_state>>

search_clipboard_history ==
    \E query \in Queries : \E r \in search_clipboard_items(clipboard_items, query) :
        /\ Idle
        /\ last' = Done([NoCall EXCEPT !.op = "search", !.query = query],
                        OnPool([Ok(clipboard_items) EXCEPT !.list = r]))
        /\ UNCHANGED <<clipboard_items, db_lock, pc, call, local_tags, other_state>>

toggle_clipboard_favorite ==
    \E id \in IdArgs :
        LET out == OnPool(toggle_favorite(clipboard_items, id)) IN
        /\ Idle
        /\ clipboard_items' = out.rows
        /\ last' = Done([NoCall EXCEPT !.op = "toggle", !.id = id], out)
        /\ UNCHANGED <<db_lock, pc, call, local_tags, other_state>>

delete_clipboard_item_cmd ==
    \E id \in IdArgs :
        LET out == OnPool(delete_clipboard_item(clipboard_items, id)) IN
        /\ Idle
        /\ clipboard_items' = out.rows
        /\ last' = Done([NoCall EXCEPT !.op = "delete", !.id = id], out)
        /\ UNCHANGED <<db_lock, pc, call, local_tags, other_state>>

clear_clipboard_history_cmd ==
    LET out == OnPool(clear_clipboard_history(clipboard_items)) IN
    /\ Idle
    /\ clipboard_items' = out.rows
    /\ last' = Done([NoCall EXCEPT !.op = "clear"], out)
    /\ UNCHANGED <<db_lock, pc, call, local_tags, other_state>>

add_tag_to_item_cmd ==
    \E id \in IdArgs, tag \in TagArgs :
        LET out == OnPool(add_tag_to_item(clipboard_items, id, tag)) IN
        /\ Idle
        /\ clipboard_items' = out.rows
        /\ last' = Done([NoCall EXCEPT !.op = "add_tag", !.id = id, !.tag = tag], out)
        /\ UNCHANGED <<db_lock, pc, call, local_tags, other_state>>

remove_tag_from_item_cmd ==
    \E id \in IdArgs, tag \in TagArgs :
        LET out == OnPool(remove_tag_from_item(clipboard_items, id, tag)) IN
        /\ Idle
        /\ clipboard_items' = out.rows
        /\ last' = Done([NoCall EXCEPT !.op = "remove_tag", !.id = id, !.tag = tag], out)
        /\ UNCHANGED <<db_lock, pc, call, local_tags, other_state>>

cleanup_old_items_cmd ==
    \E age \in Ages, now \in Clock :
        LET out == OnPool(cleanup_old_items(clipboard_items, age, now)) IN
        /\ Idle
        /\ clipboard_items' = out.rows
        /\ last' = Done([NoCall EXCEPT !.op = "cleanup", !.age = age, !.now = now], out)
        /\ UNCHANGED <<db_lock, pc, call, local_tags, other_state>>

\* what the paths of the file system hold when the store is opened: nothing,
\* but for a text file and for a database file of the same schema that was
\* made elsewhere (a copy of the storage file of another installation)
FilesAtStart ==
    [p \in BackupPaths \cup {"backup_before_restore.db"} |->
        CASE p = "backups/clipbook_copy.db" ->
               [kind |-> "db", schema |-> TRUE,
                tables |-> [t \in Tables |->
                   CASE t = "clipboard_items" ->
                          {ItemToRow([id |-> U2, content |-> <<"b">>, content_type |-> "Text",
                                      timestamp |-> 0, app_source |-> AppAb,
                                      is_favorite |-> FALSE, tags |-> <<TagB>>])}
                     [] t = "system_preferences" -> {"theme"}
                     [] t = "schema_migrations" -> Migrated(MigrationNames).migs
                     [] OTHER -> {}]]
          [] p = "notes.txt" -> [kind |-> "text", schema |-> FALSE, tables |-> EmptyTables]
          [] OTHER -> [kind |-> "absent", schema |-> FALSE, tables |-> EmptyTables]]

\* the store as the Backup Coordinator sees it now
Now ==
    [World(clipboard_items, system_preferences, schema_migrations, backup_restore_logs,
           files, pool_closed, create_if_missing, migration_dir, committed)
        EXCEPT !.in_tx = conn.in_tx, !.attached = conn.attached]

\* the record of a finished backup or restore call and of the call before it
NoBackup ==
    [op |-> "none", path |-> "", ok |-> TRUE, err |-> "none", job |-> NoJob,
     closed |-> FALSE, pre |-> World({}, {}, {}, <<>>, FilesAtStart, FALSE, TRUE, {}, <<>>),
     post |-> World({}, {}, {}, <<>>, FilesAtStart, FALSE, TRUE, {}, <<>>),
     prev_op |-> "none", prev_path |-> "", prev_status |-> "none", prev_items |-> {},
     prev_fresh |-> FALSE, limit |-> 0, history |-> <<>>]

BackupDone(op, path, out) ==
    [op |-> op, path |-> path, ok |-> out.ok, err |-> out.err, job |-> out.job,
     closed |-> pool_closed, pre |-> Now, post |-> out.w,
     prev_op |-> bk.op, prev_path |-> bk.path, prev_status |-> bk.job.status,
     prev_items |-> bk.pre.items,
     prev_fresh |-> bk.path \in (BackupPaths \cup {"backup_before_restore.db"}) /\ ~IsFile(bk.pre.files, bk.path),
     limit |-> 0, history |-> <<>>]

\* the locals of a caller before its command starts: its arguments (the path
\* of a backup or restore, the item of a save), the index of the table
\* loop, the result of backup_database or restore_database, the job, the
\* tables as its open transaction has them, and what is remembered for the
\* properties (the tables of the file and of the store when its transaction
\* began, whether another caller
\* wrote while it was open, the states of the main tables that its copies
\* read, what a query saw)
NoTask ==
    [i |-> 1, ok |-> TRUE, err |-> "none", job |-> NoJob, in_tx |-> FALSE,
     tx |-> EmptyTables, begin_tx |-> EmptyTables, begin_main |-> EmptyTables,
     wrote_during |-> FALSE,
     snapshots |-> {}, phase |-> "none", seen |-> {}, seen_phase |-> "none",
     pre_items |-> {}, path |-> "",
     item |-> CHOOSE x \in SaveItems : x.id = U1 /\ x.timestamp = 1]

\* what DatabaseManager::with_config leaves when nothing fails: an open pool,
\* every migration applied, no job recorded
\* no call of the System Tray Manager yet.  Of a call the model keeps the
\* operation, its arguments, whether it has returned ("returned") or waits
\* for ever ("blocked"), whether it returned Ok, the list it found and the
\* list get_menu_items returned
NoTrayCall == [op |-> "none", pc |-> "returned", ok |-> TRUE, item_id |-> "",
               enabled |-> FALSE, pre |-> <<>>, result |-> <<>>]

\* SystemTrayManager::new(): no menu item
SystemTrayManager_new ==
    /\ menu_items = <<>>
    /\ tray_call = NoTrayCall

\* no call of the Global Shortcut Manager yet.  pc is "returned", "blocked"
\* (the call waits for ever) or "panicked"
NoShortcutCall == [op |-> "none", pc |-> "returned", ok |-> TRUE, action |-> "",
                   result |-> FALSE, pre_registered |-> {}]

\* GlobalShortcutManager::new(): the four default shortcuts, enabled, no
\* registration, monitoring off
GlobalShortcutManager_new ==
    /\ shortcuts = [action \in {"toggle_clipboard", "clear_history", "toggle_favorite",
                                "show_clipboard"} |->
                      [key_combination |->
                          CASE action = "toggle_clipboard" -> <<"Cmd", "Shift", "V">>
                            [] action = "clear_history" -> <<"Cmd", "Shift", "Delete">>
                            [] action = "toggle_favorite" -> <<"Cmd", "Shift", "F">>
                            [] OTHER -> <<"Cmd", "Shift", "C">>,
                       enabled |-> TRUE]]
    /\ registered_shortcuts = {}
    /\ monitor_active = FALSE
    /\ shortcut_call = NoShortcutCall

\* DatabaseMetrics::new(): the counters of a new store
DatabaseMetrics_new == [total_operations |-> 0, error_count |-> 0]

\* get_database_metrics(): a clone of the counters
get_database_metrics == metrics

Constructed ==
    /\ pool_closed = FALSE
    /\ create_if_missing = TRUE
    /\ system_preferences = {}
    /\ migration_dir = MigrationNames
    /\ schema_migrations = Migrated(MigrationNames).migs
    /\ committed = Migrated(MigrationNames).committed
    /\ mig = NoRun
    /\ backup_restore_logs = <<>>
    /\ files = FilesAtStart
    /\ bk = NoBackup
    /\ db_readers = {}
    /\ task = [p \in Callers |-> NoTask]
    /\ conn = [in_tx |-> FALSE, attached |-> {}]
    /\ faults = {"none"}
    /\ metrics = DatabaseMetrics_new
    /\ SystemTrayManager_new
    /\ GlobalShortcutManager_new

Init ==
    /\ clipboard_items = {}
    /\ last = NoCall
    /\ db_lock = Free
    /\ pc = [p \in Callers |-> "idle"]
    /\ call = [p \in Callers |-> NoCall]
    /\ local_tags = [p \in Callers |-> <<>>]
    /\ Constructed
    /\ new

Next ==
    \/ add_to_clipboard_history
    \/ get_clipboard_history_cmd
    \/ search_clipboard_history
    \/ toggle_clipboard_favorite
    \/ delete_clipboard_item_cmd
    \/ clear_clipboard_history_cmd
    \/ add_tag_to_item_cmd
    \/ remove_tag_from_item_cmd
    \/ cleanup_old_items_cmd

Spec == Init /\ [][Next]_vars

----------------------------------------------------------------------------
(* Two callers running the tag commands concurrently.  A command is        *)
(*   let manager = database_manager.write().await;                         *)
(*   manager.add_tag_to_item(&item_id, &tag).await                         *)
(* so its SELECT and its UPDATE are separate awaits made while the caller  *)
(* holds the write half of the RwLock; the guard is dropped on return.     *)

\* a command that takes the shared half, read().await, which other callers
\* do not exclude
WriteGranted_Shared(p) == TRUE

\* write().await completes for caller p once no other caller holds the lock
WriteGranted(p) == db_lock = Free /\ db_readers = {}

\* the stores the callers may start from: rows saved before, one per id
SavedStores ==
    {S \in SUBSET {ItemToRow(item) : item \in SaveItems} :
        \A r, q \in S : r.id = q.id => r = q}

TagCalls ==
    {[NoCall EXCEPT !.op = op, !.id = id, !.tag = tag] :
        op \in {"add_tag", "remove_tag"}, id \in IdArgs, tag \in TagArgs}

InitConc ==
    /\ clipboard_items \in SavedStores
    /\ last = NoCall
    /\ db_lock = Free
    /\ pc = [p \in Callers |-> "idle"]
    /\ call \in [Callers -> TagCalls]
    /\ local_tags = [p \in Callers |-> <<>>]
    /\ Constructed
    /\ new

\* database_manager.write().await
AcquireWrite(p) ==
    /\ pc[p] = "idle"
    /\ WriteGranted(p)
    /\ db_lock' = p
    /\ pc' = [pc EXCEPT ![p] = "select"]
    /\ UNCHANGED <<clipboard_items, last, call, local_tags, other_state>>

\* SELECT tags FROM clipboard_items WHERE id = ?  (fetch_one), then the
\* decision whether an UPDATE follows
SelectTags(p) ==
    /\ pc[p] = "select"
    /\ IF ~Stored(clipboard_items, call[p].id)
       THEN /\ call' = [call EXCEPT ![p].ok = FALSE, ![p].err = "DatabaseError"]
            /\ pc' = [pc EXCEPT ![p] = "return"]
            /\ UNCHANGED local_tags
       ELSE LET tags == TagsOf(clipboard_items, call[p].id) IN
            IF call[p].op = "add_tag"
            THEN IF \E i \in 1..Len(tags) : tags[i] = call[p].tag
                 THEN /\ pc' = [pc EXCEPT ![p] = "return"]
                      /\ UNCHANGED <<call, local_tags>>
                 ELSE /\ local_tags' = [local_tags EXCEPT ![p] = Append(tags, call[p].tag)]
                      /\ pc' = [pc EXCEPT ![p] = "update"]
                      /\ UNCHANGED call
            ELSE /\ local_tags' = [local_tags EXCEPT
                                     ![p] = SelectSeq(tags, LAMBDA t : t # call[p].tag)]
                 /\ pc' = [pc EXCEPT ![p] = "update"]
                 /\ UNCHANGED call
    /\ UNCHANGED <<clipboard_items, last, db_lock, other_state>>

\* UPDATE clipboard_items SET tags = ? WHERE id = ?
UpdateTags(p) ==
    /\ pc[p] = "update"
    /\ clipboard_items' =
          {IF r.id = call[p].id THEN [r EXCEPT !.tags = ToJson(local_tags[p])] ELSE r :
              r \in clipboard_items}
    /\ pc' = [pc EXCEPT ![p] = "return"]
    /\ UNCHANGED <<last, db_lock, call, local_tags, other_state>>

\* the command returns and its guard is dropped
ReleaseWrite(p) ==
    /\ pc[p] = "return"
    /\ db_lock' = IF db_lock = p THEN Free ELSE db_lock
    /\ pc' = [pc EXCEPT ![p] = "done"]
    /\ last' = call[p]
    /\ UNCHANGED <<clipboard_items, call, local_tags, other_state>>

NextConc ==
    \E p \in Callers :
        \/ AcquireWrite(p)
        \/ SelectTags(p)
        \/ UpdateTags(p)
        \/ ReleaseWrite(p)

SpecConc == InitConc /\ [][NextConc]_vars

----------------------------------------------------------------------------
(* The Migration Runner at construction: each start of the application     *)
(* opens the storage file and runs the migrations of the directory.  The   *)
(* statement that fails in a run, if one does, is the run's input.         *)

with_config ==
    \E bad \in BadChoices(migration_dir) :
        LET run == run_migrations(schema_migrations, committed, migration_dir, FALSE, bad)
        IN  /\ schema_migrations' = run.migs
            /\ committed' = run.committed
            /\ mig' = [ran |-> TRUE, ok |-> run.ok, err |-> run.err, bad |-> bad,
                       pre_version |-> MaxVersion(schema_migrations),
                       post_version |-> MaxVersion(run.migs),
                       pre_committed |-> committed,
                       attempted |-> run.attempted, applied |-> run.applied,
                       failed |-> run.failed,
                       prev_ran |-> mig.ran, prev_ok |-> mig.ok,
                       prev_failed |-> mig.failed]
            /\ UNCHANGED <<clipboard_items, last, db_lock, pc, call, local_tags,
                           pool_closed, create_if_missing, system_preferences, backup_restore_logs, files,
                           bk, migration_dir, db_readers, task, conn, faults, metrics, monitor_vars, mac_vars>>

\* a new storage file and a migrations directory holding some of the files
InitMig ==
    /\ clipboard_items = {}
    /\ last = NoCall
    /\ db_lock = Free
    /\ pc = [p \in Callers |-> "idle"]
    /\ call = [p \in Callers |-> NoCall]
    /\ local_tags = [p \in Callers |-> <<>>]
    /\ pool_closed = FALSE
    /\ create_if_missing = TRUE
    /\ system_preferences = {}
    /\ migration_dir \in SUBSET MigrationNames
    /\ schema_migrations = {}
    /\ committed = <<>>
    /\ mig = NoRun
    /\ backup_restore_logs = <<>>
    /\ files = FilesAtStart
    /\ bk = NoBackup
    /\ db_readers = {}
    /\ task = [p \in Callers |-> NoTask]
    /\ conn = [in_tx |-> FALSE, attached |-> {}]
    /\ faults = {"none"}
    /\ metrics = DatabaseMetrics_new
    /\ SystemTrayManager_new
    /\ GlobalShortcutManager_new
    /\ new

SpecMig == InitMig /\ [][with_config]_vars

----------------------------------------------------------------------------
(* The Backup Coordinator and close, one caller at a time.                 *)

create_backup_cmd ==
    \E file_path \in BackupPaths, fault \in faults :
        \E out \in {create_backup([Now EXCEPT !.fault = fault], file_path)} :
        /\ Idle
        /\ Len(backup_restore_logs) < MaxJobs
        /\ clipboard_items' = out.w.items
        /\ system_preferences' = out.w.prefs
        /\ schema_migrations' = out.w.migs
        /\ committed' = out.w.committed
        /\ backup_restore_logs' = out.w.logs
        /\ files' = out.w.files
        /\ conn' = [in_tx |-> out.w.in_tx, attached |-> out.w.attached]
        /\ bk' = BackupDone("backup", file_path, out)
        /\ UNCHANGED <<last, db_lock, pc, call, local_tags, pool_closed, create_if_missing,
                       migration_dir, mig, db_readers, task, faults, metrics, monitor_vars, mac_vars>>

restore_from_backup_cmd ==
    \E file_path \in BackupPaths, fault \in faults :
        \E out \in {restore_from_backup([Now EXCEPT !.fault = fault], file_path)} :
        /\ Idle
        /\ Len(backup_restore_logs) < MaxJobs
        /\ clipboard_items' = out.w.items
        /\ system_preferences' = out.w.prefs
        /\ schema_migrations' = out.w.migs
        /\ committed' = out.w.committed
        /\ backup_restore_logs' = out.w.logs
        /\ files' = out.w.files
        /\ conn' = [in_tx |-> out.w.in_tx, attached |-> out.w.attached]
        /\ bk' = BackupDone("restore", file_path, out)
        /\ UNCHANGED <<last, db_lock, pc, call, local_tags, pool_closed, create_if_missing,
                       migration_dir, mig, db_readers, task, faults, metrics, monitor_vars, mac_vars>>

close_database ==
    /\ Idle
    /\ pool_closed' = close(pool_closed)
    /\ last' = Done([NoCall EXCEPT !.op = "close"], Ok(clipboard_items))
    /\ UNCHANGED <<clipboard_items, db_lock, pc, call, local_tags, create_if_missing,
                   system_preferences, schema_migrations, backup_restore_logs, files, bk,
                   migration_dir, committed, mig, db_readers, task, conn, faults, metrics, monitor_vars, mac_vars>>

\* a store that holds items saved before and auxiliary rows
InitBackup ==
    /\ clipboard_items \in SavedStores
    /\ last = NoCall
    /\ db_lock = Free
    /\ pc = [p \in Callers |-> "idle"]
    /\ call = [p \in Callers |-> NoCall]
    /\ local_tags = [p \in Callers |-> <<>>]
    /\ pool_closed = FALSE
    /\ create_if_missing \in BOOLEAN
    /\ system_preferences \in {{}, {"font"}}
    /\ migration_dir = MigrationNames
    /\ schema_migrations = Migrated(MigrationNames).migs
    /\ committed = Migrated(MigrationNames).committed
    /\ mig = NoRun
    /\ backup_restore_logs = <<>>
    /\ files = FilesAtStart
    /\ bk = NoBackup
    /\ db_readers = {}
    /\ task = [p \in Callers |-> NoTask]
    /\ conn = [in_tx |-> FALSE, attached |-> {}]
    /\ faults = {"none"}
    /\ metrics = DatabaseMetrics_new
    /\ SystemTrayManager_new
    /\ GlobalShortcutManager_new
    /\ new

NextBackup ==
    \/ create_backup_cmd
    \/ restore_from_backup_cmd
    \/ clear_clipboard_history_cmd

SpecBackup == InitBackup /\ [][NextBackup]_vars

\* get_backup_restore_history(limit)
get_backup_restore_history_cmd ==
    \E limit \in {NoLimit, 0, 1} :
        /\ Idle
        /\ bk' = [bk EXCEPT !.op = "history", !.ok = acquire(pool_closed),
                            !.err = IF acquire(pool_closed) THEN "none" ELSE "DatabaseError",
                            !.closed = pool_closed, !.pre = Now, !.post = Now,
                            !.limit = limit,
                            !.history = IF acquire(pool_closed)
                                        THEN get_backup_restore_history(backup_restore_logs,
                                                                        limit)
                                        ELSE <<>>]
        /\ UNCHANGED <<clipboard_items, last, db_lock, pc, call, local_tags, pool_closed,
                       create_if_missing, system_preferences, schema_migrations,
                       backup_restore_logs, files, migration_dir, committed, mig, db_readers,
                       task, conn, faults, metrics, monitor_vars, mac_vars>>

\* cleanup_old_backups(backup_directory, max_backups) on the directory
\* "backups": of its .db files the files_to_remove oldest are removed.  The
\* model keeps no modification times, so any files_to_remove of them may be
\* the oldest.
cleanup_old_backups_cmd ==
    \E max_backups \in 0..1 :
        LET backup_files == {f \in BackupPaths : Parent(f) = "backups" /\ IsFile(files, f)}
            files_to_remove == IF Cardinality(backup_files) > max_backups
                               THEN Cardinality(backup_files) - max_backups ELSE 0
        IN  \E removed \in {R \in SUBSET backup_files : Cardinality(R) = files_to_remove} :
                /\ Idle
                /\ files' = [f \in DOMAIN files |->
                               IF f \in removed
                               THEN [kind |-> "absent", schema |-> FALSE,
                                     tables |-> EmptyTables]
                               ELSE files[f]]
                /\ bk' = [bk EXCEPT !.op = "cleanup", !.ok = TRUE, !.err = "none",
                                    !.closed = pool_closed, !.pre = Now,
                                    !.post = [Now EXCEPT !.files = files'],
                                    !.limit = max_backups]
                /\ UNCHANGED <<clipboard_items, last, db_lock, pc, call, local_tags,
                               pool_closed, create_if_missing, system_preferences,
                               schema_migrations, backup_restore_logs, migration_dir,
                               committed, mig, db_readers, task, conn, faults, metrics, monitor_vars, mac_vars>>

\* a store that holds one item and the job of the backup that wrote
\* backups/clipbook_copy.db, on a file system that may fail the statements of
\* a backup
InitFaults ==
    /\ clipboard_items = {ItemToRow(NoTask.item)}
    /\ last = NoCall
    /\ db_lock = Free
    /\ pc = [p \in Callers |-> "idle"]
    /\ call = [p \in Callers |-> NoCall]
    /\ local_tags = [p \in Callers |-> <<>>]
    /\ pool_closed = FALSE
    /\ create_if_missing \in BOOLEAN
    /\ system_preferences = {"font"}
    /\ migration_dir = MigrationNames
    /\ schema_migrations = Migrated(MigrationNames).migs
    /\ committed = Migrated(MigrationNames).committed
    /\ mig = NoRun
    /\ backup_restore_logs =
          <<[job_id |-> 1, operation_type |-> "backup", status |-> "completed",
             file_path |-> "backups/clipbook_copy.db",
             file_size_bytes |-> FileSize(FilesAtStart["backups/clipbook_copy.db"]),
             items_count |-> 1, error_message |-> "none", end_time |-> "Some"]>>
    /\ files = FilesAtStart
    /\ bk = NoBackup
    /\ db_readers = {}
    /\ task = [p \in Callers |-> NoTask]
    /\ conn = [in_tx |-> FALSE, attached |-> {}]
    /\ faults = BackupFaults \cup {"none"}
    /\ metrics = DatabaseMetrics_new
    /\ SystemTrayManager_new
    /\ GlobalShortcutManager_new
    /\ new

SpecFaults ==
    InitFaults /\ [][\/ create_backup_cmd
                     \/ restore_from_backup_cmd
                     \/ clear_clipboard_history_cmd
                     \/ cleanup_old_backups_cmd
                     \/ get_backup_restore_history_cmd]_vars

\* any command issued once the pool has been closed
CommandAfterClose ==
    /\ pool_closed
    /\ \/ add_to_clipboard_history
       \/ get_clipboard_history_cmd
       \/ search_clipboard_history
       \/ toggle_clipboard_favorite
       \/ delete_clipboard_item_cmd
       \/ clear_clipboard_history_cmd
       \/ add_tag_to_item_cmd
       \/ remove_tag_from_item_cmd
       \/ cleanup_old_items_cmd
       \/ create_backup_cmd
       \/ restore_from_backup_cmd

NextClose == close_database \/ CommandAfterClose

\* the stores that are closed: an empty one and those holding three items
InitClose ==
    /\ InitBackup
    /\ Cardinality(clipboard_items) \in {0, 3}
    /\ system_preferences # {}
    /\ create_if_missing

SpecClose == InitClose /\ [][NextClose]_vars

----------------------------------------------------------------------------
(* A backup or a restore next to another command, statement by statement.  *)
(* Caller 1 runs create_backup or restore_from_backup, caller 2 a command  *)
(* of the Content Store.  The statements of a method are separate awaits   *)
(* on the pool; between BEGIN IMMEDIATE and COMMIT they work on the        *)
(* transaction's view of the tables (task[p].tx), which COMMIT makes the   *)
(* stored one.                                                             *)

\* a command layer that calls the methods without taking the lock
LockMode_Unlocked(op) == "none"

\* database_manager.read().await for the listing, .write().await for the rest
LockMode(op) == IF op = "list" THEN "read" ELSE "write"

\* what every step of this section leaves alone
settled == <<last, local_tags, call, pool_closed, create_if_missing, bk, migration_dir, mig,
             conn, faults, metrics, monitor_vars, mac_vars>>

InitSteps ==
    /\ clipboard_items \in {S \in SavedStores : Cardinality(S) <= 1}
    /\ last = NoCall
    /\ db_lock = Free
    /\ pc = [p \in Callers |-> "idle"]
    /\ \E op \in {"backup", "restore"},
          c \in {[NoCall EXCEPT !.op = "save"], [NoCall EXCEPT !.op = "clear"],
                 [NoCall EXCEPT !.op = "list"],
                 [NoCall EXCEPT !.op = "delete", !.id = U1],
                 [NoCall EXCEPT !.op = "toggle", !.id = U1]} :
          call = [p \in Callers |-> IF p = 1 THEN [NoCall EXCEPT !.op = op] ELSE c]
    /\ \E path \in BackupPaths, item \in {x \in SaveItems : x.timestamp = 2} :
          task = [p \in Callers |->
                    IF call[p].op \in {"backup", "restore"}
                    THEN [NoTask EXCEPT !.path = path]
                    ELSE IF call[p].op = "save" THEN [NoTask EXCEPT !.item = item]
                    ELSE NoTask]
    /\ local_tags = [p \in Callers |-> <<>>]
    /\ pool_closed = FALSE
    /\ create_if_missing = TRUE
    /\ system_preferences = {"font"}
    /\ migration_dir = MigrationNames
    /\ schema_migrations = Migrated(MigrationNames).migs
    /\ committed = Migrated(MigrationNames).committed
    /\ mig = NoRun
    /\ backup_restore_logs = <<>>
    /\ files = FilesAtStart
    /\ bk = NoBackup
    /\ db_readers = {}
    /\ conn = [in_tx |-> FALSE, attached |-> {}]
    /\ faults = {"none"}
    /\ metrics = DatabaseMetrics_new
    /\ SystemTrayManager_new
    /\ GlobalShortcutManager_new
    /\ new

\* the command takes its half of the RwLock
Enter(p) ==
    /\ pc[p] = "idle"
    /\ LET mode == LockMode(call[p].op)
       IN  /\ CASE mode = "write" -> WriteGranted(p)
                [] mode = "read" -> db_lock = Free
                [] OTHER -> TRUE
           /\ db_lock' = IF mode = "write" THEN p ELSE db_lock
           /\ db_readers' = IF mode = "read" THEN db_readers \cup {p} ELSE db_readers
    /\ pc' = [pc EXCEPT ![p] = CASE call[p].op = "backup" -> "mkdir"
                                 [] call[p].op = "restore" -> "exists"
                                 [] OTHER -> "query"]
    /\ task' = [task EXCEPT ![p].pre_items = clipboard_items]
    /\ UNCHANGED <<settled, clipboard_items, system_preferences, schema_migrations,
                   backup_restore_logs, files, committed>>

\* the one statement of a store command; a listing keeps what it read and
\* whether a restore had then committed its clearing, or its copy
Query(p) ==
    /\ pc[p] = "query"
    /\ LET c == call[p]
           phase == IF \E q \in Callers : task[q].phase = "cleared" THEN "cleared"
                    ELSE IF \E q \in Callers : task[q].phase = "copied" THEN "copied"
                    ELSE "none"
           out == CASE c.op = "save" -> save_clipboard_item(clipboard_items, task[p].item)
                    [] c.op = "delete" -> delete_clipboard_item(clipboard_items, c.id)
                    [] c.op = "clear" -> clear_clipboard_history(clipboard_items)
                    [] c.op = "toggle" -> toggle_favorite(clipboard_items, c.id)
                    [] OTHER -> Ok(clipboard_items)
       IN  /\ clipboard_items' = out.rows
           /\ task' = [q \in Callers |->
                         IF q = p
                         THEN [task[q] EXCEPT !.ok = out.ok, !.err = out.err,
                                              !.seen = clipboard_items,
                                              !.seen_phase = phase]
                         ELSE IF task[q].in_tx /\ c.op # "list"
                         THEN [task[q] EXCEPT !.wrote_during = TRUE]
                         ELSE task[q]]
    /\ pc' = [pc EXCEPT ![p] = "return"]
    /\ UNCHANGED <<settled, db_lock, db_readers, system_preferences, schema_migrations,
                   backup_restore_logs, files, committed>>

\* the command returns and its guard is dropped
Leave(p) ==
    /\ pc[p] = "return"
    /\ db_lock' = IF db_lock = p THEN Free ELSE db_lock
    /\ db_readers' = db_readers \ {p}
    /\ pc' = [pc EXCEPT ![p] = "done"]
    /\ UNCHANGED <<settled, task, clipboard_items, system_preferences, schema_migrations,
                   backup_restore_logs, files, committed>>

\* create_backup: std::fs::create_dir_all(parent) ... ?
BackupMkdir(p) ==
    /\ pc[p] = "mkdir"
    /\ IF create_dir_all(files, Parent(task[p].path))
       THEN /\ pc' = [pc EXCEPT ![p] = "attach"]
            /\ UNCHANGED task
       ELSE /\ pc' = [pc EXCEPT ![p] = "return"]
            /\ task' = [task EXCEPT ![p].ok = FALSE, ![p].err = "DatabaseError"]
    /\ UNCHANGED <<settled, db_lock, db_readers, clipboard_items, system_preferences,
                   schema_migrations, backup_restore_logs, files, committed>>

\* backup_database: ATTACH DATABASE ? AS backup_db ... ?
BackupAttach(p) ==
    /\ pc[p] = "attach"
    /\ IF Attachable(Now, task[p].path)
       THEN /\ files' = [files EXCEPT ![task[p].path] = Attached(Now, task[p].path)]
            /\ pc' = [pc EXCEPT ![p] = "begin"]
            /\ UNCHANGED task
       ELSE /\ task' = [task EXCEPT ![p].ok = FALSE, ![p].err = "DatabaseError"]
            /\ pc' = [pc EXCEPT ![p] = "record"]
            /\ UNCHANGED files
    /\ UNCHANGED <<settled, db_lock, db_readers, clipboard_items, system_preferences,
                   schema_migrations, backup_restore_logs, committed>>

\* BEGIN IMMEDIATE TRANSACTION
BackupBegin(p) ==
    /\ pc[p] = "begin"
    /\ task' = [task EXCEPT ![p].in_tx = TRUE, ![p].tx = files[task[p].path].tables,
                            ![p].begin_tx = files[task[p].path].tables,
                            ![p].begin_main = MainTables(Now), ![p].i = 1]
    /\ pc' = [pc EXCEPT ![p] = "copy"]
    /\ UNCHANGED <<settled, db_lock, db_readers, clipboard_items, system_preferences,
                   schema_migrations, backup_restore_logs, files, committed>>

\* INSERT INTO backup_db.table SELECT * FROM main.table, for one table
BackupCopy(p) ==
    /\ pc[p] = "copy"
    /\ LET table == BackupTables[task[p].i]
           copied == IF files[task[p].path].schema
                     THEN CopyTables(task[p].tx, MainTables(Now), <<table>>)
                     ELSE task[p].tx
       IN  task' = [task EXCEPT ![p].tx = copied, ![p].i = @ + 1,
                                ![p].snapshots = @ \cup {MainTables(Now)}]
    /\ pc' = [pc EXCEPT ![p] = IF task[p].i = Len(BackupTables) THEN "commit" ELSE "copy"]
    /\ UNCHANGED <<settled, db_lock, db_readers, clipboard_items, system_preferences,
                   schema_migrations, backup_restore_logs, files, committed>>

\* COMMIT
BackupCommit(p) ==
    /\ pc[p] = "commit"
    /\ files' = [files EXCEPT ![task[p].path].tables = task[p].tx]
    /\ task' = [task EXCEPT ![p].in_tx = FALSE]
    /\ pc' = [pc EXCEPT ![p] = "detach"]
    /\ UNCHANGED <<settled, db_lock, db_readers, clipboard_items, system_preferences,
                   schema_migrations, backup_restore_logs, committed>>

\* DETACH DATABASE backup_db; Ok(())
BackupDetach(p) ==
    /\ pc[p] = "detach"
    /\ pc' = [pc EXCEPT ![p] = "record"]
    /\ UNCHANGED <<settled, task, db_lock, db_readers, clipboard_items, system_preferences,
                   schema_migrations, backup_restore_logs, files, committed>>

\* create_backup: the job, its size and count, record_backup_restore_job;
\* restore_from_backup: the same with the size of the file read
Record(p) ==
    /\ pc[p] = "record"
    /\ LET t == task[p]
           op == call[p].op
           job == [job_id |-> Len(backup_restore_logs) + 1,
                   operation_type |-> op,
                   status |-> IF t.ok THEN "completed" ELSE "failed",
                   file_path |-> task[p].path,
                   file_size_bytes |-> IF t.ok \/ op = "restore"
                                       THEN FileSize(files[task[p].path]) ELSE 0,
                   items_count |-> IF t.ok THEN CountItems(Now) ELSE 0,
                   error_message |-> IF t.ok THEN "none"
                                     ELSE IF op = "backup" THEN "Backup failed"
                                     ELSE "Restore failed",
                   end_time |-> "Some"]
           out == record_backup_restore_job(Now, job)
       IN  /\ backup_restore_logs' = out.w.logs
           /\ task' = [task EXCEPT ![p].job = out.job, ![p].ok = out.ok, ![p].err = out.err]
    /\ pc' = [pc EXCEPT ![p] = "return"]
    /\ UNCHANGED <<settled, db_lock, db_readers, clipboard_items, system_preferences,
                   schema_migrations, files, committed>>

\* restore_from_backup: if !Path::new(backup_path).exists() { return Err }
RestoreExists(p) ==
    /\ pc[p] = "exists"
    /\ IF IsFile(files, task[p].path)
       THEN /\ pc' = [pc EXCEPT ![p] = "safety"]
            /\ UNCHANGED task
       ELSE /\ pc' = [pc EXCEPT ![p] = "return"]
            /\ task' = [task EXCEPT ![p].ok = FALSE, ![p].err = "DatabaseError"]
    /\ UNCHANGED <<settled, db_lock, db_readers, clipboard_items, system_preferences,
                   schema_migrations, backup_restore_logs, files, committed>>

\* the backup of the current state before the restore; its failure is logged
RestoreSafety(p) ==
    /\ pc[p] = "safety"
    /\ files' = backup_database(Now, "backup_before_restore.db").w.files
    /\ pc' = [pc EXCEPT ![p] = "begin_clear"]
    /\ UNCHANGED <<settled, task, db_lock, db_readers, clipboard_items, system_preferences,
                   schema_migrations, backup_restore_logs, committed>>

\* restore_database: BEGIN IMMEDIATE TRANSACTION
RestoreBeginClear(p) ==
    /\ pc[p] = "begin_clear"
    /\ task' = [task EXCEPT ![p].in_tx = TRUE, ![p].tx = MainTables(Now), ![p].i = 1]
    /\ pc' = [pc EXCEPT ![p] = "clear"]
    /\ UNCHANGED <<settled, db_lock, db_readers, clipboard_items, system_preferences,
                   schema_migrations, backup_restore_logs, files, committed>>

\* DELETE FROM table, for one table of tables_to_clear
RestoreClear(p) ==
    /\ pc[p] = "clear"
    /\ task' = [task EXCEPT ![p].tx[RestoreTables[task[p].i]] = {}, ![p].i = @ + 1]
    /\ pc' = [pc EXCEPT ![p] = IF task[p].i = Len(RestoreTables)
                               THEN "commit_clear" ELSE "clear"]
    /\ UNCHANGED <<settled, db_lock, db_readers, clipboard_items, system_preferences,
                   schema_migrations, backup_restore_logs, files, committed>>

\* COMMIT of the clearing
RestoreCommitClear(p) ==
    /\ pc[p] = "commit_clear"
    /\ clipboard_items' = task[p].tx["clipboard_items"]
    /\ system_preferences' = task[p].tx["system_preferences"]
    /\ task' = [task EXCEPT ![p].in_tx = FALSE, ![p].phase = "cleared"]
    /\ pc' = [pc EXCEPT ![p] = "restore_attach"]
    /\ UNCHANGED <<settled, db_lock, db_readers, schema_migrations, backup_restore_logs,
                   files, committed>>

\* ATTACH DATABASE ? AS restore_db ... ?
RestoreAttach(p) ==
    /\ pc[p] = "restore_attach"
    /\ IF Attachable(Now, task[p].path)
       THEN /\ pc' = [pc EXCEPT ![p] = "begin_copy"]
            /\ UNCHANGED task
       ELSE /\ pc' = [pc EXCEPT ![p] = "record"]
            /\ task' = [task EXCEPT ![p].ok = FALSE, ![p].err = "DatabaseError"]
    /\ UNCHANGED <<settled, db_lock, db_readers, clipboard_items, system_preferences,
                   schema_migrations, backup_restore_logs, files, committed>>

\* BEGIN IMMEDIATE TRANSACTION of the copy
RestoreBeginCopy(p) ==
    /\ pc[p] = "begin_copy"
    /\ task' = [task EXCEPT ![p].in_tx = TRUE, ![p].tx = MainTables(Now), ![p].i = 1]
    /\ pc' = [pc EXCEPT ![p] = "restore_copy"]
    /\ UNCHANGED <<settled, db_lock, db_readers, clipboard_items, system_preferences,
                   schema_migrations, backup_restore_logs, files, committed>>

\* INSERT INTO main.table SELECT * FROM restore_db.table, for one table
RestoreCopy(p) ==
    /\ pc[p] = "restore_copy"
    /\ LET table == RestoreTables[task[p].i]
           copied == IF files[task[p].path].schema
                     THEN CopyTables(task[p].tx, files[task[p].path].tables, <<table>>)
                     ELSE task[p].tx
       IN  task' = [task EXCEPT ![p].tx = copied, ![p].i = @ + 1]
    /\ pc' = [pc EXCEPT ![p] = IF task[p].i = Len(RestoreTables)
                               THEN "commit_copy" ELSE "restore_copy"]
    /\ UNCHANGED <<settled, db_lock, db_readers, clipboard_items, system_preferences,
                   schema_migrations, backup_restore_logs, files, committed>>

\* COMMIT of the copy
RestoreCommitCopy(p) ==
    /\ pc[p] = "commit_copy"
    /\ clipboard_items' = task[p].tx["clipboard_items"]
    /\ system_preferences' = task[p].tx["system_preferences"]
    /\ task' = [task EXCEPT ![p].in_tx = FALSE, ![p].phase = "copied"]
    /\ pc' = [pc EXCEPT ![p] = "migrate"]
    /\ UNCHANGED <<settled, db_lock, db_readers, schema_migrations, backup_restore_logs,
                   files, committed>>

\* DETACH DATABASE restore_db; Self::run_migrations(&self.pool).await?
RestoreMigrate(p) ==
    /\ pc[p] = "migrate"
    /\ LET run == run_migrations(schema_migrations, committed, migration_dir,
                                 pool_closed, NoBad)
       IN  /\ schema_migrations' = run.migs
           /\ committed' = run.committed
           /\ task' = [task EXCEPT ![p].ok = run.ok, ![p].err = run.err]
    /\ pc' = [pc EXCEPT ![p] = "record"]
    /\ UNCHANGED <<settled, db_lock, db_readers, clipboard_items, system_preferences,
                   backup_restore_logs, files>>

NextSteps ==
    \E p \in Callers :
        \/ Enter(p) \/ Query(p) \/ Leave(p)
        \/ BackupMkdir(p) \/ BackupAttach(p) \/ BackupBegin(p) \/ BackupCopy(p)
        \/ BackupCommit(p) \/ BackupDetach(p) \/ Record(p)
        \/ RestoreExists(p) \/ RestoreSafety(p) \/ RestoreBeginClear(p)
        \/ RestoreClear(p) \/ RestoreCommitClear(p) \/ RestoreAttach(p)
        \/ RestoreBeginCopy(p) \/ RestoreCopy(p) \/ RestoreCommitCopy(p)
        \/ RestoreMigrate(p)

SpecSteps == InitSteps /\ [][NextSteps]_vars

----------------------------------------------------------------------------
(* The calls of the Change Monitor and the steps of its poll task.         *)

\* a start that spawns a task whether or not the monitor is Running
start_monitoring_Respawns ==
    \E t \in {u \in Tasks : tasks[u].pc \in {"none", "finished", "cancelled"}} :
        /\ is_running' = TRUE
        /\ tasks' = [tasks EXCEPT ![t] = [NoPoll EXCEPT !.pc = "spawned"]]
        /\ monitor_handle' = t
        /\ mon' = [op |-> "start", ok |-> TRUE, result |-> FALSE, switch |-> "start",
                   pre_running |-> is_running, post_running |-> TRUE,
                   task_changed |-> monitor_handle' # monitor_handle \/ tasks' # tasks]
        /\ UNCHANGED <<last_content, callbacks, statistics, clock, clipboard, effects,
                       store_vars, mac_vars>>

\* start_monitoring(): under the is_running mutex, return Ok(()) when Running;
\* otherwise set the flag, spawn the poll task and keep its handle
start_monitoring ==
    \E t \in Tasks :
        /\ IF is_running THEN t = 1
           ELSE /\ tasks[t].pc \in {"none", "finished", "cancelled"}
                /\ \A u \in 1..(t - 1) :
                      tasks[u].pc \notin {"none", "finished", "cancelled"}
        /\ is_running' = TRUE
        /\ tasks' = IF is_running THEN tasks
                    ELSE [tasks EXCEPT ![t] = [NoPoll EXCEPT !.pc = "spawned"]]
        /\ monitor_handle' = IF is_running THEN monitor_handle ELSE t
        /\ mon' = [op |-> "start", ok |-> TRUE, result |-> FALSE, switch |-> "start",
                   pre_running |-> is_running, post_running |-> TRUE,
                   task_changed |-> monitor_handle' # monitor_handle \/ tasks' # tasks]
        /\ UNCHANGED <<last_content, callbacks, statistics, clock, clipboard, effects,
                       store_vars, mac_vars>>

\* stop_monitoring(): under the is_running mutex, return Ok(()) when Stopped;
\* otherwise clear the flag, take the handle and abort the task
stop_monitoring ==
    /\ is_running' = FALSE
    /\ monitor_handle' = IF is_running THEN 0 ELSE monitor_handle
    /\ tasks' = IF is_running /\ monitor_handle # 0
                THEN [tasks EXCEPT ![monitor_handle].aborted = TRUE]
                ELSE tasks
    /\ mon' = [op |-> "stop", ok |-> TRUE, result |-> FALSE, switch |-> "stop",
               pre_running |-> is_running, post_running |-> FALSE,
               task_changed |-> monitor_handle' # monitor_handle \/ tasks' # tasks]
    /\ UNCHANGED <<last_content, callbacks, statistics, clock, clipboard, effects,
                   store_vars, mac_vars>>

\* is_monitoring(): *self.is_running.lock().unwrap()
is_monitoring ==
    /\ mon' = [mon EXCEPT !.op = "is_monitoring", !.ok = TRUE, !.result = is_running,
                          !.pre_running = is_running, !.post_running = is_running,
                          !.task_changed = FALSE]
    /\ UNCHANGED <<is_running, monitor_handle, tasks, last_content, callbacks, statistics,
                   clock, clipboard, effects, store_vars, mac_vars>>

\* add_callback(callback): callbacks.write().await waits for a dispatch that
\* holds the read half; then push
add_callback ==
    \E callback \in {"A", "B"} :
        /\ \A t \in Tasks : tasks[t].pc # "dispatch"
        /\ \A i \in DOMAIN callbacks : callbacks[i] # callback
        /\ callbacks' = Append(callbacks, callback)
        /\ UNCHANGED <<is_running, monitor_handle, tasks, last_content, statistics, clock,
                       clipboard, mon, effects, store_vars, mac_vars>>

\* remove_callback(callback_id): remove the callback at that index, if any
remove_callback ==
    \E callback_id \in 0..1 :
        /\ \A t \in Tasks : tasks[t].pc # "dispatch"
        /\ callbacks' = IF callback_id < Len(callbacks)
                        THEN [i \in 1..(Len(callbacks) - 1) |->
                                IF i <= callback_id THEN callbacks[i] ELSE callbacks[i + 1]]
                        ELSE callbacks
        /\ UNCHANGED <<is_running, monitor_handle, tasks, last_content, statistics, clock,
                       clipboard, mon, effects, store_vars, mac_vars>>

\* the top of the poll loop: break when the flag is clear, else
\* interval.tick().await, which is ready at once when its deadline has passed
\* (the first tick, and every tick the task is late for) and suspends the
\* task otherwise. The first poll of a spawned task creates the interval and
\* last_change_time before it enters the loop; a task aborted before its
\* first poll is never polled.
LoopTop(t) ==
    /\ \/ tasks[t].pc = "top"
       \/ tasks[t].pc = "spawned" /\ ~tasks[t].aborted
    /\ \E deadline \in {IF tasks[t].pc = "spawned" THEN clock ELSE tasks[t].next_tick} :
          tasks' = [tasks EXCEPT
                      ![t].pc = IF ~is_running THEN "finished"
                                ELSE IF clock >= deadline THEN "read"
                                ELSE "suspended",
                      ![t].next_tick = IF is_running /\ clock >= deadline
                                       THEN deadline + MonitoringInterval ELSE deadline,
                      ![t].last_change_time = IF tasks[t].pc = "spawned" THEN clock ELSE @]
    /\ UNCHANGED <<is_running, monitor_handle, last_content, callbacks, statistics, clock,
                   clipboard, mon, effects, store_vars, mac_vars>>

\* the deadline of the interval passes and the suspended task is resumed
TickFire(t) ==
    /\ tasks[t].pc = "suspended"
    /\ ~tasks[t].aborted
    /\ clock >= tasks[t].next_tick
    /\ tasks' = [tasks EXCEPT ![t].pc = "read", ![t].next_tick = @ + MonitoringInterval]
    /\ UNCHANGED <<is_running, monitor_handle, last_content, callbacks, statistics, clock,
                   clipboard, mon, effects, store_vars, mac_vars>>

\* an abort that drops the task wherever it is
Cancel_Anywhere(t) ==
    /\ tasks[t].pc \in {"suspended", "spawned", "read", "stats", "dispatch"}
    /\ tasks[t].aborted
    /\ tasks' = [tasks EXCEPT ![t].pc = "cancelled"]
    /\ UNCHANGED <<is_running, monitor_handle, last_content, callbacks, statistics, clock,
                   clipboard, mon, effects, store_vars, mac_vars>>

\* JoinHandle::abort() takes effect: a task is dropped where it is suspended
\* (at the interval, or at last_content.write().await while another task holds
\* the lock), or before its first poll
Cancel(t) ==
    /\ \/ tasks[t].pc \in {"suspended", "spawned"}
       \/ /\ tasks[t].pc = "read"
          /\ \E u \in Tasks : tasks[u].pc \in {"stats", "dispatch"}
    /\ tasks[t].aborted
    /\ tasks' = [tasks EXCEPT ![t].pc = "cancelled"]
    /\ UNCHANGED <<is_running, monitor_handle, last_content, callbacks, statistics, clock,
                   clipboard, mon, effects, store_vars, mac_vars>>

\* a dispatch that goes through the subscribers from the last to the first
Dispatch_Backwards(t) ==
    /\ tasks[t].pc = "dispatch"
    /\ tasks[t].i <= Len(callbacks)
    /\ effects' = Append(effects, callbacks[Len(callbacks) + 1 - tasks[t].i])
    /\ tasks' = [tasks EXCEPT ![t].i = @ + 1]
    /\ UNCHANGED <<is_running, monitor_handle, last_content, callbacks, statistics, clock,
                   clipboard, mon, store_vars, mac_vars>>

\* #[derive(PartialEq)] of ClipboardItem: every field is compared
ItemEq(a, b) ==
    /\ a.id = b.id
    /\ a.content = b.content
    /\ a.timestamp = b.timestamp
    /\ a.app_source = b.app_source

\* the condition under which check_clipboard_change_enhanced takes the item
\* read for a change
Changed(last_seen, current_item, time_since_last_change) ==
    /\ ~\E l \in last_seen : ItemEq(l, current_item)
    /\ Trim(current_item.content) # <<>>
    /\ time_since_last_change > DebounceMs

\* a poll loop that ends on a failed read
AfterCheck_BreaksOnError(verdict) ==
    CASE verdict = "accepted" -> "stats"
      [] verdict = "read_failed" -> "finished"
      [] OTHER -> "top"

\* where the task goes after the conditions of a tick: on to the statistics
\* for a change, back to the loop otherwise (return Ok(()) for an ignored
\* application; nothing is done with an Err of the read)
AfterCheck(verdict) == IF verdict = "accepted" THEN "stats" ELSE "top"

\* check_clipboard_change_enhanced up to the event: the read of the clipboard
\* and of the frontmost application, last_content.write().await, the three
\* conditions, the ignore-list.  Uuid::new_v4() gives an id that no other
\* item has; the only item it is ever compared with is the one of
\* last_content.
Check(t) ==
    /\ tasks[t].pc = "read"
    /\ \A u \in Tasks : tasks[u].pc \notin {"stats", "dispatch"}
    /\ LET current_item == [id |-> IF \E l \in last_content : l.id = 1 THEN 2 ELSE 1,
                            content |-> clipboard.content,
                            timestamp |-> clock,
                            app_source |-> clipboard.app]
           now == clock
           verdict == IF ~clipboard.has_text THEN "read_failed"
                      ELSE IF ~Changed(last_content, current_item,
                                       now - tasks[t].last_change_time) THEN "skipped"
                      ELSE IF current_item.app_source \cap ignore_applications # {}
                      THEN "ignored"
                      ELSE "accepted"
       IN  /\ tasks' = [tasks EXCEPT
                          ![t].pc = AfterCheck(verdict),
                          ![t].verdict = verdict,
                          ![t].read_failed = @ \/ verdict = "read_failed",
                          ![t].suppressed = IF verdict = "ignored"
                                            THEN {current_item.content}
                                            ELSE IF verdict = "accepted" THEN {} ELSE @,
                          ![t].event = IF verdict = "accepted"
                                       THEN {[item |-> current_item, timestamp |-> now,
                                              source |-> IF current_item.app_source = {}
                                                         THEN {"Unknown"}
                                                         ELSE current_item.app_source]}
                                       ELSE {}]
           /\ effects' = IF verdict = "accepted" THEN <<>> ELSE effects
    /\ UNCHANGED <<is_running, monitor_handle, last_content, callbacks, statistics, clock,
                   clipboard, mon, store_vars, mac_vars>>

\* the statistics of an accepted change (the model's contents are plain
\* text, which determine_change_type counts as Text), then
\* callbacks.read().await
UpdateStatistics(t) ==
    /\ tasks[t].pc = "stats"
    /\ \E event \in tasks[t].event :
          statistics' = [total_changes_detected |-> statistics.total_changes_detected + 1,
                         text_changes |-> statistics.text_changes + 1,
                         last_change |-> {event.timestamp}]
    /\ tasks' = [tasks EXCEPT ![t].pc = "dispatch", ![t].i = 1]
    /\ effects' = Append(effects, "statistics")
    /\ UNCHANGED <<is_running, monitor_handle, last_content, callbacks, clock, clipboard,
                   mon, store_vars, mac_vars>>

\* for callback in callbacks_guard.iter() { callback(event.clone()) }: one
\* call.  Nothing catches a panic of the callback ("P" is a subscriber that
\* panics): it unwinds the poll task, whose guards are dropped, and tokio ends
\* the task.
Dispatch(t) ==
    /\ tasks[t].pc = "dispatch"
    /\ tasks[t].i <= Len(callbacks)
    /\ effects' = Append(effects, callbacks[tasks[t].i])
    /\ tasks' = IF callbacks[tasks[t].i] = "P"
                THEN [tasks EXCEPT ![t].pc = "panicked"]
                ELSE [tasks EXCEPT ![t].i = @ + 1]
    /\ UNCHANGED <<is_running, monitor_handle, last_content, callbacks, statistics, clock,
                   clipboard, mon, store_vars, mac_vars>>

\* *last = Some(current_item); *last_change_time = now; back to the loop
UpdateLast(t) ==
    /\ tasks[t].pc = "dispatch"
    /\ tasks[t].i > Len(callbacks)
    /\ \E event \in tasks[t].event :
          /\ last_content' = {event.item}
          /\ tasks' = [tasks EXCEPT ![t].pc = "top", ![t].last_change_time = event.timestamp]
    /\ effects' = Append(effects, "last_content")
    /\ UNCHANGED <<is_running, monitor_handle, callbacks, statistics, clock, clipboard,
                   mon, store_vars, mac_vars>>

\* the user copies something (a text, a blank text, or something that is
\* no text), or another application comes to the front.  A new content ends
\* what the tasks remember of the content they met under an ignored
\* application (suppressed, which no step of the program reads).
Copy ==
    \E has_text \in BOOLEAN, content \in {<<"a">>, <<" ">>},
       app \in {{"Safari"}, {"ClipBook"}} :
        /\ clipboard' = [has_text |-> has_text,
                         content |-> IF has_text THEN content ELSE <<>>, app |-> app]
        /\ clipboard' # clipboard
        /\ tasks' = IF clipboard'.content = clipboard.content
                       /\ clipboard'.has_text = clipboard.has_text
                    THEN tasks
                    ELSE [t \in Tasks |-> [tasks[t] EXCEPT !.suppressed = {}]]
        /\ UNCHANGED <<is_running, monitor_handle, last_content, callbacks,
                       statistics, clock, mon, effects, store_vars, mac_vars>>

\* time passes
Advance ==
    /\ clock < MaxClock
    /\ clock' = clock + ClockStep
    /\ UNCHANGED <<is_running, monitor_handle, tasks, last_content, callbacks, statistics,
                   clipboard, mon, effects, store_vars, mac_vars>>

\* one run of the monitor: subscribers come and go and the clipboard changes
\* while the poll task runs
SpecMon ==
    Init /\ [][\/ start_monitoring
                \/ add_callback
                \/ remove_callback
                \/ \E t \in Tasks : \/ LoopTop(t)
                                    \/ TickFire(t)
                                    \/ Check(t)
                                    \/ UpdateStatistics(t)
                                    \/ Dispatch(t)
                                    \/ UpdateLast(t)
                \/ Copy
                \/ Advance]_vars

\* a monitor with one subscriber, and a text on the clipboard
InitLife ==
    /\ clipboard_items = {}
    /\ last = NoCall
    /\ db_lock = Free
    /\ pc = [p \in Callers |-> "idle"]
    /\ call = [p \in Callers |-> NoCall]
    /\ local_tags = [p \in Callers |-> <<>>]
    /\ Constructed
    /\ is_running = FALSE
    /\ monitor_handle = 0
    /\ tasks = [t \in Tasks |-> NoPoll]
    /\ last_content = {}
    /\ callbacks = <<"A">>
    /\ statistics = [total_changes_detected |-> 0, text_changes |-> 0, last_change |-> {}]
    /\ clock = 0
    /\ clipboard = [has_text |-> TRUE, content |-> <<"a">>, app |-> {"Safari"}]
    /\ mon = NoMonitorCall
    /\ effects = <<>>

\* start and stop called while the poll task runs
SpecLife ==
    InitLife /\ [][\/ start_monitoring
                    \/ stop_monitoring
                    \/ is_monitoring
                    \/ \E t \in Tasks : \/ LoopTop(t)
                                        \/ TickFire(t)
                                        \/ Cancel(t)
                                        \/ Check(t)
                                        \/ UpdateStatistics(t)
                                        \/ Dispatch(t)
                                        \/ UpdateLast(t)
                    \/ Advance]_vars

\* set_clipboard_content(content): run pbcopy, whose standard input is not
\* connected to anything, so that the pasteboard is left with an empty text
\* (which a read gives as an empty text or as no text); when pbcopy succeeds
\* store an item with the content, a new id and no application in
\* last_content
set_clipboard_content ==
    \E content \in {<<"a">>}, success \in BOOLEAN, has_text \in BOOLEAN :
        /\ \A t \in Tasks : tasks[t].pc \notin {"stats", "dispatch"}
        /\ clipboard' = IF success
                        THEN [has_text |-> has_text, content |-> <<>>, app |-> clipboard.app]
                        ELSE clipboard
        /\ last_content' = IF success
                           THEN {[id |-> 0, content |-> content, timestamp |-> clock,
                                  app_source |-> {}]}
                           ELSE last_content
        /\ mon' = [mon EXCEPT !.op = "write", !.ok = success]
        /\ UNCHANGED <<is_running, monitor_handle, tasks, callbacks, statistics, clock,
                       effects, store_vars, mac_vars>>

\* the monitor runs while the application writes to the clipboard and the
\* user copies
SpecWrite ==
    InitLife /\ [][\/ start_monitoring
                    \/ set_clipboard_content
                    \/ \E t \in Tasks : \/ LoopTop(t)
                                        \/ TickFire(t)
                                        \/ Check(t)
                                        \/ UpdateStatistics(t)
                                        \/ Dispatch(t)
                                        \/ UpdateLast(t)
                    \/ Copy
                    \/ Advance]_vars

\* a monitor whose second subscriber may be one that panics
InitPanic ==
    /\ clipboard_items = {}
    /\ last = NoCall
    /\ db_lock = Free
    /\ pc = [p \in Callers |-> "idle"]
    /\ call = [p \in Callers |-> NoCall]
    /\ local_tags = [p \in Callers |-> <<>>]
    /\ Constructed
    /\ is_running = FALSE
    /\ monitor_handle = 0
    /\ tasks = [t \in Tasks |-> NoPoll]
    /\ last_content = {}
    /\ callbacks \in {<<"A", "P", "B">>, <<"A", "B">>, <<"P">>}
    /\ statistics = [total_changes_detected |-> 0, text_changes |-> 0, last_change |-> {}]
    /\ clock = 0
    /\ clipboard = [has_text |-> TRUE, content |-> <<"a">>, app |-> {"Safari"}]
    /\ mon = NoMonitorCall
    /\ effects = <<>>

\* the monitor runs with its subscribers while the clipboard changes
SpecPanic ==
    InitPanic /\ [][\/ start_monitoring
                     \/ is_monitoring
                     \/ \E t \in Tasks : \/ LoopTop(t)
                                         \/ TickFire(t)
                                         \/ Check(t)
                                         \/ UpdateStatistics(t)
                                         \/ Dispatch(t)
                                         \/ UpdateLast(t)
                     \/ Copy
                     \/ Advance]_vars

----------------------------------------------------------------------------
(* The System Tray Manager and the Global Shortcut Manager.                *)

\* update_tray_menu(): self.menu_items.read().await, then the script.  The
\* read half is not granted while the write half is held, and the callers
\* below still hold it (their guard `items` lives to the end of their body).
update_tray_menu(lock) == IF lock = "write" THEN "blocked" ELSE "returned"

\* add_menu_item(item): menu_items.write().await, push,
\* self.update_tray_menu().await.  A call that finds the lock held by a
\* blocked call waits too and changes nothing.
add_menu_item ==
    \E item \in {[id |-> "test", title |-> "Test Item", enabled |-> TRUE],
                  [id |-> "show", title |-> "Show ClipBook", enabled |-> FALSE]} :
        /\ tray_call.pc = "returned"
        /\ menu_items' = Append(menu_items, item)
        /\ tray_call' = [op |-> "add", pc |-> update_tray_menu("write"), ok |-> TRUE,
                         item_id |-> item.id, enabled |-> item.enabled,
                         pre |-> menu_items, result |-> <<>>]
        /\ UNCHANGED <<shortcuts, registered_shortcuts, monitor_active, shortcut_call,
                       store_vars, monitor_vars>>

\* remove_menu_item(item_id): menu_items.write().await, retain,
\* self.update_tray_menu().await
remove_menu_item ==
    \E item_id \in {"test", "show"} :
        /\ tray_call.pc = "returned"
        /\ menu_items' = SelectSeq(menu_items, LAMBDA item : item.id # item_id)
        /\ tray_call' = [op |-> "remove", pc |-> update_tray_menu("write"), ok |-> TRUE,
                         item_id |-> item_id, enabled |-> FALSE,
                         pre |-> menu_items, result |-> <<>>]
        /\ UNCHANGED <<shortcuts, registered_shortcuts, monitor_active, shortcut_call,
                       store_vars, monitor_vars>>

\* update_menu_item(item_id, enabled): menu_items.write().await; set the flag
\* of the first item of that id and self.update_tray_menu().await, or return
\* SystemError when there is none
update_menu_item ==
    \E item_id \in {"test", "show"}, enabled \in BOOLEAN :
        /\ tray_call.pc = "returned"
        /\ \E found \in {{i \in DOMAIN menu_items : menu_items[i].id = item_id}} :
              /\ menu_items' = [i \in DOMAIN menu_items |->
                                  IF found # {} /\ i = CHOOSE j \in found :
                                                          \A k \in found : j <= k
                                  THEN [menu_items[i] EXCEPT !.enabled = enabled]
                                  ELSE menu_items[i]]
              /\ tray_call' = [op |-> "update",
                               pc |-> IF found # {} THEN update_tray_menu("write")
                                      ELSE "returned",
                               ok |-> found # {},
                               item_id |-> item_id, enabled |-> enabled,
                               pre |-> menu_items, result |-> <<>>]
        /\ UNCHANGED <<shortcuts, registered_shortcuts, monitor_active, shortcut_call,
                       store_vars, monitor_vars>>

\* get_menu_items(): menu_items.read().await, clone
get_menu_items ==
    /\ tray_call.pc = "returned"
    /\ tray_call' = [op |-> "get", pc |-> "returned", ok |-> TRUE, item_id |-> "",
                     enabled |-> FALSE, pre |-> menu_items, result |-> menu_items]
    /\ UNCHANGED <<menu_items, shortcuts, registered_shortcuts, monitor_active,
                   shortcut_call, store_vars, monitor_vars>>

\* parse_mac_key_combination(combination): every part is a modifier or a key
\* that get_mac_key_code knows
parse_mac_key_combination(combination) ==
    \A i \in DOMAIN combination :
        combination[i] \in {"Cmd", "Shift", "Alt", "Ctrl", "Fn", "V", "C", "F", "K", "Delete"}

\* locking a std Mutex that the thread already holds: the call does not
\* return; it waits for ever or panics, as the platform has it
lock_held_mutex == {"blocked", "panicked"}

\* register_shortcut(action, key_combination): parse the combination (Err
\* for a key that is not supported), register the hotkey (always Ok), set
\* key_combination and enabled of a known action, insert the registration
register_shortcut ==
    \E action \in {"toggle_clipboard", "clear_history", "custom"},
       key_combination \in {<<"Cmd", "Shift", "V">>, <<"Cmd", "Shift", "K">>,
                            <<"Cmd", "Shift", "?">>} :
        /\ shortcut_call.pc = "returned"
        /\ \E parsed \in {parse_mac_key_combination(key_combination)} :
              /\ shortcuts' = IF parsed /\ action \in DOMAIN shortcuts
                              THEN [shortcuts EXCEPT ![action] =
                                      [key_combination |-> key_combination,
                                       enabled |-> TRUE]]
                              ELSE shortcuts
              /\ registered_shortcuts' = IF parsed THEN registered_shortcuts \cup {action}
                                         ELSE registered_shortcuts
              /\ shortcut_call' = [op |-> "register", pc |-> "returned", ok |-> parsed,
                                   action |-> action, result |-> FALSE,
                                   pre_registered |-> registered_shortcuts]
        /\ UNCHANGED <<menu_items, tray_call, monitor_active, store_vars, monitor_vars>>

\* unregister_shortcut(action): remove the registration, unregister the
\* hotkey when there was one (always Ok), clear enabled of a known action
unregister_shortcut ==
    \E action \in {"toggle_clipboard", "clear_history", "custom"} :
        /\ shortcut_call.pc = "returned"
        /\ registered_shortcuts' = registered_shortcuts \ {action}
        /\ shortcuts' = IF action \in DOMAIN shortcuts
                        THEN [shortcuts EXCEPT ![action].enabled = FALSE]
                        ELSE shortcuts
        /\ shortcut_call' = [op |-> "unregister", pc |-> "returned", ok |-> TRUE,
                             action |-> action, result |-> FALSE,
                             pre_registered |-> registered_shortcuts]
        /\ UNCHANGED <<menu_items, tray_call, monitor_active, store_vars, monitor_vars>>

\* GlobalShortcutManager::start_monitoring(): set monitor_active
shortcuts_start_monitoring ==
    /\ shortcut_call.pc = "returned"
    /\ monitor_active' = TRUE
    /\ shortcut_call' = [op |-> "start", pc |-> "returned", ok |-> TRUE, action |-> "",
                         result |-> FALSE, pre_registered |-> registered_shortcuts]
    /\ UNCHANGED <<menu_items, tray_call, shortcuts, registered_shortcuts, store_vars,
                   monitor_vars>>

\* GlobalShortcutManager::stop_monitoring(): clear monitor_active, lock
\* registered_shortcuts and, with the guard alive, call unregister_shortcut
\* for each key; unregister_shortcut begins by locking registered_shortcuts
shortcuts_stop_monitoring ==
    /\ shortcut_call.pc = "returned"
    /\ monitor_active' = FALSE
    /\ \E outcome \in IF registered_shortcuts = {} THEN {"returned"} ELSE lock_held_mutex :
          shortcut_call' = [op |-> "stop", pc |-> outcome, ok |-> outcome = "returned",
                            action |-> "", result |-> FALSE,
                            pre_registered |-> registered_shortcuts]
    /\ UNCHANGED <<menu_items, tray_call, shortcuts, registered_shortcuts, store_vars,
                   monitor_vars>>

\* is_monitoring_active(): *self.monitor_active.lock().unwrap()
is_monitoring_active ==
    /\ shortcut_call.pc = "returned"
    /\ shortcut_call' = [op |-> "is_monitoring_active", pc |-> "returned", ok |-> TRUE,
                         action |-> "", result |-> monitor_active,
                         pre_registered |-> registered_shortcuts]
    /\ UNCHANGED <<menu_items, tray_call, shortcuts, registered_shortcuts, monitor_active,
                   store_vars, monitor_vars>>

\* the calls of the two managers, in any order
SpecMac ==
    Init /\ [][\/ add_menu_item
                \/ remove_menu_item
                \/ update_menu_item
                \/ get_menu_items
                \/ register_shortcut
                \/ unregister_shortcut
                \/ shortcuts_start_monitoring
                \/ shortcuts_stop_monitoring
                \/ is_monitoring_active]_vars

----------------------------------------------------------------------------
(* Properties *)

\* the elements of the sequence s
Range(s) == {s[i] : i \in 1..Len(s)}

\* the statements a migration file holds
StatementsOf(name) ==
    {MigrationSql(name)[i] : i \in {j \in 1..Len(MigrationSql(name)) :
                                      IsStatement(MigrationSql(name)[j])}}

\* q is a case-insensitive substring of the text t (never of NULL)
CISubstring(t, q) == t # Null /\ Contains(ToLower(t), ToLower(q))

\* rows a and b differ at most in their tags column
SameButTags(a, b) == [a EXCEPT !.tags = <<>>] = [b EXCEPT !.tags = <<>>]

\* the item it and the row r hold the same values
ItemIsRow(it, r) ==
    /\ it.id = r.id /\ it.content = r.content /\ it.timestamp = r.timestamp
    /\ it.app_source = r.app_source /\ it.is_favorite = r.is_favorite
    /\ EncodeContentType(it.content_type) = r.content_type
    /\ ToJson(it.tags) = r.tags

\* the sequence of items l lists rows of the set S, no row twice, newest first
ListsNewestFirst(l, S) ==
    /\ \A i \in 1..Len(l) : \E r \in S : ItemIsRow(l[i], r)
    /\ \A i, j \in 1..Len(l) : i # j => l[i].id # l[j].id
    /\ \A i, j \in 1..Len(l) : i < j => l[i].timestamp >= l[j].timestamp

\* C1: a save whose content equals the content of a stored item succeeds and
\* does not increase the number of stored items, and so no two stored items
\* share their content.
C1_DedupInvariant ==
    /\ (last.op = "save" /\ \E r \in last.pre : r.content = last.item.content)
          => (last.ok /\ Cardinality(clipboard_items) <= Cardinality(last.pre))
    /\ \A r, q \in clipboard_items : r.content = q.content => r = q

\* C2: list(limit) returns exactly min(limit, n) stored items (limit is 100
\* when unspecified), newest first, and no item left out is newer than an
\* item returned.
C2_ListNewestFirst ==
    last.op = "list" =>
        LET n == IF last.limit = NoLimit THEN 100 ELSE last.limit IN
        /\ last.ok
        /\ Len(last.list) = Min(n, Cardinality(last.pre))
        /\ Len(last.list) <= n
        /\ ListsNewestFirst(last.list, last.pre)
        /\ \A r \in last.pre :
              (\A i \in 1..Len(last.list) : last.list[i].id # r.id)
                 => \A i \in 1..Len(last.list) : last.list[i].timestamp >= r.timestamp
        /\ clipboard_items = last.pre

C2_Witness ==
    /\ last.op = "list" /\ last.limit = 2 /\ Cardinality(last.pre) = 3
    /\ Len(last.list) = 2
    /\ \E r, q \in last.pre : r # q /\ r.timestamp = q.timestamp

\* C3: toggle_favorite on a stored id returns the negation of the item's
\* flag; a second toggle of the same id returns the original value and
\* leaves the whole store as it was before the two calls.
C3_ToggleInvolution ==
    (last.op = "toggle" /\ last.ok) =>
        /\ Stored(last.pre, last.id)
        /\ last.flag = ~RowOf(last.pre, last.id).is_favorite
        /\ last.rep => /\ last.flag = RowOf(last.pre2, last.id).is_favorite
                       /\ clipboard_items = last.pre2

C3_Witness ==
    /\ last.op = "toggle" /\ last.ok /\ last.rep
    /\ Cardinality(clipboard_items) >= 2
    /\ TagsOf(clipboard_items, last.id) # <<>>

\* C4: toggle_favorite of an id that is not stored fails with NotFound and
\* leaves every stored item unchanged.
C4_ToggleUnknownIsNotFound ==
    (last.op = "toggle" /\ ~Stored(last.pre, last.id)) =>
        /\ ~last.ok /\ last.err = "NotFound"
        /\ clipboard_items = last.pre

\* C5: delete(id) removes exactly the row with that id when it exists, and
\* fails with NotFound, the store unchanged, when no stored item has that id.
C5_DeleteOrNotFound ==
    last.op = "delete" =>
        IF Stored(last.pre, last.id)
        THEN last.ok /\ clipboard_items = last.pre \ {RowOf(last.pre, last.id)}
        ELSE ~last.ok /\ last.err = "NotFound" /\ clipboard_items = last.pre

\* C6: search(query) returns exactly the stored items of which query is a
\* case-insensitive substring of the content, the source_app or the
\* serialized tags, newest first, at most 100 of them.
C6_SearchIsSubstringMatch ==
    last.op = "search" =>
        LET hits == {r \in last.pre : \/ CISubstring(r.content, last.query)
                                      \/ CISubstring(r.app_source, last.query)
                                      \/ CISubstring(r.tags, last.query)}
        IN  /\ last.ok
            /\ Len(last.list) = Min(100, Cardinality(hits))
            /\ ListsNewestFirst(last.list, hits)

\* a tag call changed nothing but the tags column of the item it names
OnlyTagsChanged(before, after, id) ==
    /\ {r \in after : r.id # id} = {r \in before : r.id # id}
    /\ Stored(before, id) /\ Stored(after, id)
    /\ SameButTags(RowOf(after, id), RowOf(before, id))

\* C7: add_tag applied twice leaves the tags as after one
\* application with the tag occurring exactly once; remove_tag of an absent
\* tag succeeds and leaves the tags unchanged; neither changes another field
\* or another item.
C7_TagOpsIdempotentOnce ==
    /\ (last.op = "add_tag" /\ last.ok) =>
          /\ OnlyTagsChanged(last.pre, clipboard_items, last.id)
          /\ last.rep => /\ clipboard_items = last.pre
                         /\ Count(TagsOf(clipboard_items, last.id), last.tag) = 1
    /\ (last.op = "remove_tag" /\ Stored(last.pre, last.id)) =>
          /\ last.ok
          /\ OnlyTagsChanged(last.pre, clipboard_items, last.id)
          /\ Count(TagsOf(last.pre, last.id), last.tag) = 0 => clipboard_items = last.pre

\* The part of C7 that holds whatever tags an item was saved with: add_tag
\* applied twice leaves the tags as after one application; the tag is then
\* present, appended once if it was absent and occurring as often as before
\* if it was present; remove_tag removes every occurrence, succeeds on an
\* absent tag and then changes nothing; neither changes another field or
\* another item.
C7_TagOpsIdempotent ==
    /\ (last.op = "add_tag" /\ last.ok) =>
          /\ OnlyTagsChanged(last.pre, clipboard_items, last.id)
          /\ LET before == Count(TagsOf(last.pre, last.id), last.tag)
                 after == Count(TagsOf(clipboard_items, last.id), last.tag)
             IN  after = IF before = 0 THEN 1 ELSE before
          /\ last.rep => clipboard_items = last.pre
    /\ (last.op = "remove_tag" /\ Stored(last.pre, last.id)) =>
          /\ last.ok
          /\ OnlyTagsChanged(last.pre, clipboard_items, last.id)
          /\ Count(TagsOf(clipboard_items, last.id), last.tag) = 0
          /\ Count(TagsOf(last.pre, last.id), last.tag) = 0 => clipboard_items = last.pre

TagAddedTwice ==
    /\ last.op = "add_tag" /\ last.ok /\ last.rep
    /\ Count(TagsOf(last.pre2, last.id), last.tag) = 0
    /\ Len(TagsOf(clipboard_items, last.id)) = 2
    /\ Count(TagsOf(clipboard_items, last.id), last.tag) = 1

\* C9: cleanup deletes exactly the stored items whose timestamp is earlier
\* than now - max_age, returns how many it deleted and leaves the others
\* unchanged.
C9_CleanupExact ==
    last.op = "cleanup" =>
        /\ last.ok
        /\ clipboard_items = {r \in last.pre : ~(r.timestamp < last.now - last.age)}
        /\ clipboard_items \subseteq last.pre
        /\ last.count = Cardinality(last.pre \ clipboard_items)

C9_Witness ==
    /\ last.op = "cleanup" /\ last.count = 1
    /\ \E r \in clipboard_items : r.timestamp = last.now - last.age
    /\ \E r \in last.pre \ clipboard_items : r.timestamp = last.now - last.age - 1

\* C10: save of an item that violates a bound of the data model (a bad id, a
\* malformed tag, an oversized field) fails with a ValidationError and the
\* stored items are unchanged.
C10_SaveValidates ==
    (last.op = "save" /\ \A now \in Clock : ~validate(last.item, now)) =>
        /\ ~last.ok /\ last.err = "ValidationError"
        /\ clipboard_items = last.pre

\* both concurrent tag calls have returned, and they named one stored item
\* and two different tags
BothTagCallsDone ==
    /\ \A p \in Callers : pc[p] = "done"
    /\ call[1].id = call[2].id /\ call[1].tag # call[2].tag
    /\ Stored(clipboard_items, call[1].id)

\* C8: whatever the interleaving of two concurrent tag calls on one item with
\* different tags, the final tags reflect both: an added tag is present, a
\* removed tag is absent.
C8_NoLostTagUpdate ==
    BothTagCallsDone =>
        \A p \in Callers :
            LET n == Count(TagsOf(clipboard_items, call[p].id), call[p].tag) IN
            /\ call[p].ok
            /\ IF call[p].op = "add_tag" THEN n >= 1 ELSE n = 0

C8_Witness ==
    /\ BothTagCallsDone
    /\ call[1].op = "add_tag" /\ call[2].op = "add_tag"
    /\ Len(local_tags[1]) = 1 /\ Len(local_tags[2]) = 2
    /\ TagsOf(clipboard_items, call[1].id) = local_tags[2]

\* the methods of the Content Store that C11 names, as `last.op` records them
StoreOps ==
    {"save", "list", "search", "toggle", "delete", "clear", "add_tag", "remove_tag",
     "cleanup"}

\* C11: a Content Store operation called after close() has returned ends with an
\* error and leaves the stored data as it was: the item table for the store
\* methods; the item table, the auxiliary tables, the migration ledger, the job
\* ledger and the backup files for backup and restore.
C11_FailsCleanlyAfterClose ==
    /\ (last.closed /\ last.op \in StoreOps) =>
          /\ ~last.ok
          /\ last.err \in ClipBookError
          /\ last.list = <<>>
          /\ clipboard_items = last.pre
    /\ (bk.closed /\ bk.op \in {"backup", "restore"}) =>
          /\ ~bk.ok
          /\ bk.err \in ClipBookError
          /\ bk.job = NoJob
          /\ clipboard_items = bk.pre.items
          /\ system_preferences = bk.pre.prefs
          /\ schema_migrations = bk.pre.migs
          /\ backup_restore_logs = bk.pre.logs
          /\ files = bk.pre.files

\* a save and a restore from a good backup file, both after close, on a store
\* that holds items
C11_Witness ==
    /\ pool_closed
    /\ last.closed /\ last.op = "save"
    /\ bk.closed /\ bk.op = "restore" /\ bk.path = "backups/clipbook_copy.db"
    /\ clipboard_items # {}

\* the k of the ledger, the number N of migration files, the file of an
\* ordinal, and how often statement s of the file of ordinal v was committed
LedgerVersion == MaxVersion(schema_migrations)
FileCount == Cardinality(migration_dir)
FileOfOrdinal(v) == SortByName(migration_dir)[v]
CommitCount(v, s) == Cardinality({i \in 1..Len(committed) : committed[i] = <<v, s>>})
FromTo(a, b) == [i \in 1..(b - a + 1) |-> a + i - 1]

\* C12: the recorded versions are exactly 1..k for some k <= N, without
\* duplicates; every statement of the files of ordinal <= k has been committed
\* exactly once and no statement of a later file has been committed; the
\* statements were committed in the order of the versions; k is the version the
\* store reports.
C12_MigrationLedger ==
    /\ LedgerVersion <= FileCount
    /\ {m.version : m \in schema_migrations} = 1..LedgerVersion
    /\ \A m, n \in schema_migrations : m.version = n.version => m = n
    /\ \A v \in 1..FileCount : \A s \in StatementsOf(FileOfOrdinal(v)) :
          CommitCount(v, s) = IF v <= LedgerVersion THEN 1 ELSE 0
    /\ \A i, j \in 1..Len(committed) : i < j => committed[i][1] <= committed[j][1]
    /\ get_current_migration_version(schema_migrations, FALSE).version = LedgerVersion

\* what does hold of the ledger: the same, for the statements that the runner
\* sends to the transaction
LedgerOfExecutedStatements ==
    /\ LedgerVersion <= FileCount
    /\ {m.version : m \in schema_migrations} = 1..LedgerVersion
    /\ \A m, n \in schema_migrations : m.version = n.version => m = n
    /\ \A v \in 1..FileCount : \A s \in Range(ExecutedStatements(FileOfOrdinal(v))) :
          CommitCount(v, s) = IF v <= LedgerVersion THEN 1 ELSE 0
    /\ \A i, j \in 1..Len(committed) : i < j => committed[i][1] <= committed[j][1]

\* a file whose first statement follows a comment line has been applied
SkippedStatementRecorded ==
    \E v \in 1..LedgerVersion : \E s \in StatementsOf(FileOfOrdinal(v)) :
        CommitCount(v, s) = 0

\* C13: a run of the Migration Runner begins the files whose ordinal exceeds the
\* recorded version, in order, and applies them up to the first file that
\* fails; a run after a successful run applies nothing and leaves the version;
\* a run after a run that failed at file j begins at file j and commits nothing
\* for the files before it.
C13_RerunIdempotent ==
    mig.ran =>
        /\ mig.applied = FromTo(mig.pre_version + 1, mig.post_version)
        /\ mig.attempted = FromTo(mig.pre_version + 1,
                                  IF mig.ok THEN FileCount ELSE mig.failed)
        /\ mig.ok => mig.post_version = FileCount
        /\ ~mig.ok => mig.failed = mig.post_version + 1
        /\ (mig.prev_ran /\ mig.prev_ok) =>
              /\ mig.applied = <<>>
              /\ mig.post_version = mig.pre_version
              /\ committed = mig.pre_committed
        /\ (mig.prev_ran /\ ~mig.prev_ok) =>
              /\ mig.attempted # <<>> /\ Head(mig.attempted) = mig.prev_failed
              /\ SubSeq(committed, 1, Len(mig.pre_committed)) = mig.pre_committed
              /\ \A i \in (Len(mig.pre_committed) + 1)..Len(committed) :
                    committed[i][1] >= mig.prev_failed

\* a run that failed at a file after the first, then a run that applied that
\* file and the rest
C13_Witness ==
    /\ mig.ran /\ mig.prev_ran /\ ~mig.prev_ok /\ mig.prev_failed > 1
    /\ mig.ok /\ Len(mig.applied) > 1
    /\ Head(mig.applied) = mig.prev_failed

\* C14: when a statement of file j fails, no statement of file j and no record
\* of it is committed, no later file is begun in that run, the files before j
\* stay applied and recorded, and the run returns an error.
C14_FailedFileLeavesNothing ==
    (mig.ran /\ ~mig.ok) =>
        /\ mig.err \in ClipBookError
        /\ mig.failed \in 1..FileCount
        /\ \A m \in schema_migrations : m.version # mig.failed
        /\ \A i \in 1..Len(committed) : committed[i][1] # mig.failed
        /\ \A i \in 1..Len(mig.attempted) : mig.attempted[i] <= mig.failed
        /\ \A v \in 1..(mig.failed - 1) :
              /\ \E m \in schema_migrations : m.version = v
              /\ \A s \in Range(ExecutedStatements(FileOfOrdinal(v))) : CommitCount(v, s) = 1
        /\ SubSeq(committed, 1, Len(mig.pre_committed)) = mig.pre_committed

\* the second statement of a file after the first one fails, after the first
\* statement of that file was executed and an earlier file was applied in the
\* same run
C14_Witness ==
    /\ mig.ran /\ ~mig.ok /\ mig.failed > 1
    /\ mig.bad.stmt = "s2"
    /\ Len(ExecutedStatements(FileOfOrdinal(mig.failed))) > 1
    /\ mig.applied # <<>>

\* C15: a call of backup, completed or failed, leaves the item table, the
\* auxiliary tables and the migration ledger of the live store as they were.
C15_BackupLeavesStore ==
    bk.op = "backup" =>
        /\ bk.post.items = bk.pre.items
        /\ bk.post.prefs = bk.pre.prefs
        /\ bk.post.migs = bk.pre.migs

\* a completed backup that wrote the items of the store into the backup file
C15_Witness ==
    /\ bk.op = "backup" /\ bk.ok /\ bk.job.status = "completed"
    /\ bk.pre.items # {}
    /\ bk.post.files[bk.path] # bk.pre.files[bk.path]
    /\ bk.pre.items \subseteq bk.post.files[bk.path].tables["clipboard_items"]

\* C16: a call of backup or restore appends exactly one job to the ledger, of
\* its operation and path: Completed with the size of the file and the number
\* of items, or Failed with an error message.
C16_EveryAttemptRecorded ==
    bk.op \in {"backup", "restore"} =>
        /\ Len(bk.post.logs) = Len(bk.pre.logs) + 1
        /\ SubSeq(bk.post.logs, 1, Len(bk.pre.logs)) = bk.pre.logs
        /\ LET job == bk.post.logs[Len(bk.post.logs)]
           IN  /\ job.operation_type = bk.op
               /\ job.file_path = bk.path
               /\ job.status \in {"completed", "failed"}
               /\ job.status = "completed" =>
                     /\ bk.ok
                     /\ job.file_size_bytes = FileSize(bk.post.files[bk.path])
                     /\ job.items_count = Cardinality(bk.post.items)
               /\ job.status = "failed" => job.error_message # "none"

\* C18: a restore that has started (its backup file exists) and does not
\* complete leaves the item table as it was and records a Failed job.
C18_FailedRestoreKeepsItems ==
    (bk.op = "restore" /\ IsFile(bk.pre.files, bk.path) /\ bk.job.status # "completed") =>
        /\ bk.post.items = bk.pre.items
        /\ bk.job.status = "failed"

\* C19: a backup to a path that held nothing, then a restore from that path
\* into a store whose item table is empty: the store holds the items that
\* were backed up, and both jobs are Completed.
C19_RoundTrip ==
    (/\ bk.op = "restore" /\ bk.prev_op = "backup" /\ bk.prev_path = bk.path
     /\ bk.prev_fresh /\ bk.prev_status # "none"
     /\ bk.pre.items = {}) =>
        /\ bk.post.items = bk.prev_items
        /\ bk.prev_status = "completed"
        /\ bk.job.status = "completed"

\* C17: a listing never observes the store between the clearing of a restore
\* and its copy: when the clearing has committed and the copy has not, the
\* listing still finds the items that the store held before the restore.
C17_RestoreAtomicToObservers ==
    \A p, q \in Callers :
        (/\ call[p].op = "list" /\ pc[p] \in {"return", "done"}
         /\ call[q].op = "restore"
         /\ task[p].seen_phase = "cleared") =>
            task[p].seen = task[q].pre_items

C21_BestEffortCopy ==
    (/\ bk.op = "backup"
     /\ create_dir_all(bk.pre.files, Parent(bk.path))
     /\ Attachable(bk.pre, bk.path)) =>
        /\ bk.ok /\ bk.job.status = "completed"
        /\ \A t \in Tables :
              LET before == Attached(bk.pre, bk.path).tables[t]
                  main == MainTables(bk.pre)[t]
                  fails == \/ ~Attached(bk.pre, bk.path).schema
                           \/ \E a \in before, b \in main : KeyOf(t, a) = KeyOf(t, b)
              IN  bk.post.files[bk.path].tables[t] =
                      IF fails THEN before ELSE before \cup main

\* a Completed backup in which the copy of the items failed on a key of the
\* file and the copy of the auxiliary rows was made
C21_Witness ==
    /\ bk.op = "backup" /\ bk.job.status = "completed"
    /\ bk.pre.files[bk.path].kind = "db"
    /\ \E a \in bk.pre.files[bk.path].tables["clipboard_items"], b \in bk.pre.items :
          a.id = b.id
    /\ bk.post.files[bk.path].tables["clipboard_items"]
          = bk.pre.files[bk.path].tables["clipboard_items"]
    /\ bk.pre.prefs # {}
    /\ ~(bk.pre.prefs \subseteq bk.pre.files[bk.path].tables["system_preferences"])
    /\ bk.pre.prefs \subseteq bk.post.files[bk.path].tables["system_preferences"]

\* C22: when the safety backup of a restore fails, at whichever statement,
\* and the clearing and the copy of the restore succeed on the store as the
\* call found it, the restore is Completed and the item table holds the
\* items of the backup file.
C22_SafetyBackupNotFatal ==
    (/\ bk.op = "restore" /\ IsFile(bk.pre.files, bk.path)
     /\ ~backup_database([bk.pre EXCEPT !.fault = bk.post.fault],
                         "backup_before_restore.db").ok
     /\ restore_database(bk.pre, bk.path).ok) =>
        /\ bk.job.status = "completed"
        /\ bk.post.items = Attached(bk.pre, bk.path).tables["clipboard_items"]

\* C23: every step of backup, restore, clear, cleanup and history leaves the
\* jobs recorded so far in the ledger as they were, every job of the ledger
\* is Completed or Failed with its end_time set, and a history call returns
\* every recorded job that its limit admits, newest first.
C23_LedgerAppendOnly ==
    [][/\ Len(backup_restore_logs') >= Len(backup_restore_logs)
       /\ SubSeq(backup_restore_logs', 1, Len(backup_restore_logs)) = backup_restore_logs
       /\ \A i \in DOMAIN backup_restore_logs' :
             /\ backup_restore_logs'[i].status \in {"completed", "failed"}
             /\ backup_restore_logs'[i].end_time = "Some"
       /\ (bk'.op = "history" /\ bk'.ok) =>
             \A i \in DOMAIN backup_restore_logs :
                 (bk'.limit = NoLimit \/ Len(backup_restore_logs) - i < bk'.limit) =>
                     /\ Len(backup_restore_logs) + 1 - i \in DOMAIN bk'.history
                     /\ bk'.history[Len(backup_restore_logs) + 1 - i] = backup_restore_logs[i]
      ]_vars

\* a history call without a limit that returns the job of the first backup
\* and the job of a later restore, after a cleanup has removed backup files
C23_Witness ==
    /\ bk.op = "history" /\ bk.ok /\ bk.limit = NoLimit
    /\ Len(backup_restore_logs) = 2
    /\ bk.history = <<backup_restore_logs[2], backup_restore_logs[1]>>
    /\ backup_restore_logs[2].operation_type = "restore"
    /\ files["backups/clipbook_copy.db"].kind = "absent"

\* C24: is_monitoring() returns false before any start, true when the last
\* of start and stop that was called is start, false when it is stop; start
\* and stop return Ok and leave the monitor Running and Stopped; a start on
\* a Running monitor and a stop on a Stopped one change neither the handle
\* nor a poll task.
C24_MonitorStateMachine ==
    /\ mon.op = "is_monitoring" => mon.result = (mon.switch = "start")
    /\ mon.op \in {"start", "stop"} =>
          /\ mon.ok
          /\ mon.post_running = (mon.op = "start")
    /\ ((mon.op = "start" /\ mon.pre_running) \/ (mon.op = "stop" /\ ~mon.pre_running)) =>
          /\ mon.post_running = mon.pre_running
          /\ ~mon.task_changed
    /\ is_running = (mon.switch = "start")

\* start has just returned on a monitor that was Running, with its poll task
\* waiting for the next tick
C24_Witness ==
    /\ mon.op = "start" /\ mon.pre_running /\ is_running
    /\ monitor_handle # 0
    /\ tasks[monitor_handle].pc = "suspended"
    /\ ~tasks[monitor_handle].aborted

\* C25: while the monitor is Stopped no poll task reads the clipboard,
\* updates the statistics, calls a subscriber or updates last_content.
C25_NoPollingAfterStop ==
    [][(~is_running /\ ~is_running') =>
          /\ statistics' = statistics
          /\ last_content' = last_content
          /\ effects' = effects
          /\ \A t \in Tasks : tasks[t].pc = "read" => tasks'[t].pc = "read"]_vars

\* C26: a tick that reads the content of the last accepted change publishes
\* nothing: no poll task goes on to the statistics with an event whose
\* content is the content of last_content.
C26_UnchangedContentSkipped ==
    \A t \in Tasks :
        tasks[t].pc = "stats" =>
            \A event \in tasks[t].event, l \in last_content :
                event.item.content # l.content

\* C27: a change is accepted only when the time since the last accepted
\* change of its poll task is not below the debounce threshold, and an
\* accepted change is at least the threshold later than the event published
\* before it.
C27_Debounce ==
    \A t \in Tasks :
        tasks[t].pc = "stats" =>
            \A event \in tasks[t].event :
                /\ event.timestamp - tasks[t].last_change_time >= DebounceMs
                /\ \A earlier \in statistics.last_change :
                      event.timestamp - earlier >= DebounceMs

\* a tick that was skipped inside the debounce window of an accepted change,
\* and a change accepted after it
C27_Witness ==
    \E t \in Tasks :
        /\ tasks[t].pc = "stats"
        /\ statistics.total_changes_detected = 1
        /\ \E event \in tasks[t].event :
              event.timestamp - tasks[t].last_change_time = DebounceMs + ClockStep

\* C28: a tick whose item comes from an application of the ignore-list ends
\* without an event and leaves the statistics, the subscribers' calls and
\* last_content alone; no event carries an item of such an application.
C28_IgnoreList ==
    [][\A t \in Tasks :
          /\ (/\ tasks[t].pc = "read" /\ tasks'[t].pc # "read"
              /\ clipboard.has_text
              /\ clipboard.app \cap {"ClipBook", "SystemUIServer", "WindowServer"} # {}) =>
                /\ tasks'[t].pc = "top"
                /\ tasks'[t].event = {}
                /\ UNCHANGED <<statistics, effects, last_content>>
          /\ \A event \in tasks'[t].event :
                event.item.app_source \cap {"ClipBook", "SystemUIServer", "WindowServer"} = {}
      ]_vars

\* a tick has ended on the ignore-list: a text that is not blank, read outside
\* the debounce window while ClipBook is frontmost
C28_Witness ==
    \E t \in Tasks :
        /\ tasks[t].verdict = "ignored" /\ tasks[t].pc = "top"
        /\ clipboard = [has_text |-> TRUE, content |-> <<"a">>, app |-> {"ClipBook"}]
        /\ clock - tasks[t].last_change_time > DebounceMs

\* C29: a tick whose read fails changes nothing of the monitor and takes its
\* task back to the top of the loop of a monitor that is still Running; and
\* a tick that reads a text that is not blank, outside the debounce window,
\* from an application that is not ignored, publishes it, whatever the ticks
\* before it met.
C29_ReadFailureKeepsPolling ==
    [][\A t \in Tasks :
          (tasks[t].pc = "read" /\ tasks'[t].pc # "read") =>
              /\ ~clipboard.has_text =>
                    /\ tasks'[t].pc = "top"
                    /\ tasks'[t].last_change_time = tasks[t].last_change_time
                    /\ tasks'[t].next_tick = tasks[t].next_tick
                    /\ UNCHANGED <<is_running, monitor_handle, last_content, callbacks,
                                   statistics, effects>>
              /\ (/\ clipboard.has_text /\ Trim(clipboard.content) # <<>>
                  /\ clock - tasks[t].last_change_time > DebounceMs
                  /\ clipboard.app \cap ignore_applications = {}
                  /\ \A l \in last_content : l.content # clipboard.content) =>
                    /\ tasks'[t].pc = "stats"
                    /\ \E event \in tasks'[t].event : event.item.content = clipboard.content
      ]_vars

\* a poll task publishes a change after a read of it has failed
C29_Witness ==
    \E t \in Tasks :
        /\ tasks[t].read_failed
        /\ tasks[t].verdict = "accepted" /\ tasks[t].pc = "dispatch"
        /\ is_running

\* C30: when the poll task has finished with an accepted change it has
\* updated the statistics, then called each subscriber registered at that
\* moment once, in the order of registration, then updated last_content and
\* its last_change_time.
C30_FanOutOrder ==
    [][\A t \in Tasks :
          /\ (tasks[t].pc = "dispatch" /\ tasks'[t].pc = "top") =>
                /\ effects' = <<"statistics">> \o callbacks \o <<"last_content">>
                /\ \E event \in tasks[t].event :
                      /\ last_content' = {event.item}
                      /\ tasks'[t].last_change_time = event.timestamp
          /\ tasks'[t].pc \in {"stats", "dispatch"} =>
                /\ last_content' = last_content
                /\ tasks'[t].last_change_time = tasks[t].last_change_time
      ]_vars

\* a change was dispatched to two subscribers of which B was registered first
C30_Witness ==
    /\ callbacks = <<"B", "A">>
    /\ effects = <<"statistics", "B", "A", "last_content">>

\* C31: a change that was accepted is carried through whatever a subscriber
\* does: when the dispatch of a poll task ends, every registered subscriber
\* was called in turn, last_content holds the item, and the task is back in
\* its loop.
C31_SubscriberIsolation ==
    [][\A t \in Tasks :
          (tasks[t].pc = "dispatch" /\ tasks'[t].pc # "dispatch") =>
              /\ tasks'[t].pc = "top"
              /\ effects' = <<"statistics">> \o callbacks \o <<"last_content">>
              /\ \E event \in tasks[t].event : last_content' = {event.item}
      ]_vars

\* C32: while last_content holds the item of a write of the application, a
\* tick that reads the written content publishes nothing: no poll task goes
\* on to the statistics with an event of that content.
C32_NoFeedbackFromOwnWrite ==
    \A t \in Tasks :
        tasks[t].pc = "stats" =>
            \A event \in tasks[t].event, l \in last_content :
                l.id = 0 => event.item.content # l.content

C34_MetricsAccumulate ==
    /\ last.op # "none" => get_database_metrics.total_operations >= 1
    /\ (last.op # "none" /\ ~last.ok) => get_database_metrics.error_count >= 1
    /\ get_database_metrics.error_count <= get_database_metrics.total_operations

\* the poll tasks that exist and will run: those running a tick or at the top
\* of the loop, and those parked or not yet polled that were not aborted
LivePollTasks ==
    {t \in Tasks : \/ tasks[t].pc \in {"top", "read", "stats", "dispatch"}
                   \/ tasks[t].pc \in {"spawned", "suspended"} /\ ~tasks[t].aborted}

\* C35: there is a live poll task exactly when the monitor is Running, there
\* is never more than one, and the live task is the one whose handle the
\* monitor keeps for the next stop().
C35_AtMostOnePollTask ==
    /\ Cardinality(LivePollTasks) <= 1
    /\ is_running <=> LivePollTasks # {}
    /\ \A t \in LivePollTasks : monitor_handle = t

\* C36: a content that a poll task met on a tick ended by the ignore-list is
\* not published by that task while the clipboard keeps this content: no
\* tick accepts the content the task remembers as suppressed.
C36_SuppressedStaysSuppressed ==
    [][\A t \in Tasks :
          (/\ tasks[t].pc = "read" /\ tasks'[t].pc # "read"
           /\ clipboard.has_text
           /\ tasks[t].suppressed = {clipboard.content}) =>
              /\ tasks'[t].pc # "stats"
              /\ tasks'[t].event = {}
      ]_vars

\* C37: when create_backup or restore_from_backup has returned, no
\* transaction is open on the store's connection and no database is attached
\* to it.
C37_StoreReusableAfterBackup ==
    bk.op \in {"backup", "restore"} =>
        /\ ~conn.in_tx
        /\ conn.attached = {}

\* C38: a call of add_menu_item, remove_menu_item or update_menu_item has
\* returned, and the list then holds the item appended, no item of the given
\* id, or the item with its enabled flag as given.
C38_TrayMenuOperationsTerminate ==
    tray_call.op \in {"add", "remove", "update"} =>
        /\ tray_call.pc = "returned"
        /\ tray_call.op = "add" =>
              /\ Len(menu_items) = Len(tray_call.pre) + 1
              /\ menu_items[Len(menu_items)].id = tray_call.item_id
        /\ tray_call.op = "remove" =>
              \A i \in DOMAIN menu_items : menu_items[i].id # tray_call.item_id
        /\ (tray_call.op = "update" /\ tray_call.ok) =>
              \E i \in DOMAIN menu_items :
                  /\ menu_items[i].id = tray_call.item_id
                  /\ menu_items[i].enabled = tray_call.enabled

\* C39: a stop_monitoring of the Global Shortcut Manager that found a
\* shortcut registered has returned, monitoring is off, no registration is
\* left, and every shortcut that was registered is disabled.
C39_ShortcutStopTerminates ==
    (shortcut_call.op = "stop" /\ shortcut_call.pre_registered # {}) =>
        /\ shortcut_call.pc = "returned"
        /\ ~monitor_active
        /\ registered_shortcuts = {}
        /\ \A action \in shortcut_call.pre_registered \cap DOMAIN shortcuts :
              ~shortcuts[action].enabled

====
